---- MODULE Spec2Model ----
(***************************************************************************)
(* Household membership admission control and the socket gateway of Fire  *)
(* Finance.                                                                *)
(*                                                                         *)
(* The durable store (users, households, household_members,               *)
(* household_invitations) is shared by concurrently running HTTP requests. *)
(* Every request is an async handler: each `await` on the store is one     *)
(* atomic step, and requests interleave between their awaits.  A request    *)
(* enters the model with its first store access (what precedes it touches  *)
(* nothing shared), and a field of its body enters with the step that      *)
(* first reads it.                                                         *)
(*                                                                         *)
(* Reading notes on the source:                                            *)
(*  - routes/household (src/unnamed/part_005) filters the invitation with  *)
(*    `expires_at: '>', new Date()`; it is modelled as the comparison      *)
(*    expires_at > now that the literal spells out.                        *)
(*  - the same file calls jwt.sign without importing jwt; signing is an    *)
(*    input of the invite step that may throw (answer 500, nothing stored) *)
(*  - household_members carries is_active (used by every query), default   *)
(*    true, and is unique on (household_id, user_id) (README migration).   *)
(***************************************************************************)
EXTENDS Integers, FiniteSets, Sequences, TLC

\* ------------------------------------------------------------------ bounds
NumUsers == 3          \* user ids / e-mail addresses 1..NumUsers
NumSeedUsers == 2      \* users registered before a SpecSeq run starts
NumInvitations == 2    \* invitation ids that can be created
NumReqs == 2           \* HTTP requests in flight at the same time
DayStep == 3           \* days between two looks at the clock
MaxTime == 9           \* the clock stops at MaxTime (days)
EnvMaxUsers == 2       \* value of MAX_USERS in the admission runs
MaxCount == 10         \* counts handed to canAddUserToHousehold in SpecCap
MaxEnvNum == 8         \* numeric MAX_USERS values of SpecCap
NumSocks == 2          \* socket connections held by the gateway at a time
NumInstances == 2      \* socket server instances behind the redis adapter
NumRooms == 2          \* document ids / chat room ids the clients name
NumMessages == 2       \* chat message ids that can be handed out
LockDays == 1          \* a lock set at day 0 ends at day LockDays
NumStored == 4         \* chat_messages rows in the store when history is read
MaxLimit == 2          \* limits sendRecentMessages is called with
NumItems == 1          \* item ids a highlight names
MaxHighlights == 2     \* highlights accepted in a run
TimeStep == 15000      \* milliseconds that pass in one step of the clock
MaxClock == 45000      \* the clock stops here
MaxRows == 4           \* membership rows of the household of a statistics call
MaxEdits == 1          \* collab:edit requests whose insert is pending or done

\* -------------------------------------------------------- program constants
DefaultMaxUsers == 5   \* parseInt(process.env.MAX_USERS) || 5
InvitationTtlDays == 7 \* Date.now() + 7 * 24 * 60 * 60 * 1000
HistoryLimit == 50     \* sendRecentMessages(socket, roomType, roomId, limit = 50)
HighlightDelay == 30000 \* setTimeout(.., 30000) of collab:highlight

Users == 1..NumUsers
Households == 1..NumUsers      \* every registration creates one household
InvIds == 1..NumInvitations
Reqs == 1..NumReqs
NoId == 0
Socks == 1..NumSocks
Instances == 1..NumInstances
RoomIds == 1..NumRooms
MsgIds == 1..NumMessages
ItemIds == 1..NumItems
NoLock == -1                   \* users.locked_until is null

MemberRoles == {"admin", "member", "viewer"}
InviteRoles == {"member"}      \* role = 'member' unless the body names one

\* ------------------------------------------------------------------- state
VARIABLES
    maxUsersEnv,   \* process.env.MAX_USERS
    userRole,      \* users table: id -> role, "none" when no such row
    households,    \* households table: set of ids
    members,       \* household_members rows
    invitations,   \* household_invitations: id -> row, status "none" = no row
    now,           \* the clock (days)
    req,           \* the requests in flight: request slot -> request record
    probe,         \* argument and result of a direct capacity-function call
    accounts,      \* users table: id -> is_active, locked_until
    chat_messages, \* chat_messages rows
    chat_sent,     \* number of chat message ids handed out
    notifying,     \* message ids whose sendChatNotifications run is under way
    sockets,       \* the socket server's connections: socket slot -> record
    listeners,     \* redis subscriber listeners: <<instance, channel, socket>>
    emitted,       \* what the last gateway step sent: sequence of emissions
    onlineUsers,   \* a client's onlineUsers set fed with every presence event
    timers,        \* the setTimeout callbacks pending on the instances
    clock,         \* the time (milliseconds)
    highlighted,   \* number of highlights accepted (tags their timers)
    activity_logs, \* activity_logs rows
    edits          \* collab:edit handlers awaiting their activity_logs insert

\* the state of the collaboration handlers
collab == <<timers, clock, highlighted, activity_logs, edits>>

\* the state of the socket gateway and what it alone reads
gateway == <<accounts, chat_messages, chat_sent, notifying, sockets, listeners,
             emitted, onlineUsers, collab>>

vars == <<maxUsersEnv, userRole, households, members, invitations, now, req, probe,
          gateway>>

\* ---------------------------------------------------------------- env
\* process.env.MAX_USERS is undefined, a non-numeric string or a decimal string
EnvUnset == [kind |-> "unset", val |-> 0]
EnvText == [kind |-> "text", val |-> 0]
EnvNum(n) == [kind |-> "num", val |-> n]

\* parseInt: NaN for undefined or non-numeric text, the integer otherwise
parseInt(v) == IF v.kind = "num" THEN [nan |-> FALSE, val |-> v.val]
               ELSE [nan |-> TRUE, val |-> 0]

\* x || d : NaN and 0 are falsy
OrDefault(x, d) == IF x.nan \/ x.val = 0 THEN d ELSE x.val

MaxUsersOf(env) == OrDefault(parseInt(env), DefaultMaxUsers)

\* ---------------------------------------------------------------- e-mail
\* an address is a name spelled in lower case or with capitals
Emails == Users \X {"lower", "mixed"}
toLowerCase(e) == <<e[1], "lower">>
EmailOf(u) == <<u, "lower">>          \* users.email is stored lower-cased

\* ------------------------------------------------------------------ store
Member(h, u, role, active) ==
    [household_id |-> h, user_id |-> u, role |-> role, is_active |-> active]

\* db('household_members').where({household_id, is_active: true}).count()
ActiveCount(h) == Cardinality({m \in members : m.household_id = h /\ m.is_active})

\* db('household_members').where({household_id, user_id}).first()
MemberRows(h, u) == {m \in members : m.household_id = h /\ m.user_id = u}

NoEmail == <<NoId, "lower">>
NoInvitation == [household_id |-> NoId, email |-> NoEmail, role |-> "member",
                 status |-> "none", expires_at |-> 0]

\* --------------------------------------------------------------- capacity
NoCap == [canAdd |-> FALSE, currentUsers |-> -1, maxUsers |-> -1, remainingSlots |-> 0]

\* canAddUserToHousehold comparing with <=
canAddUserToHouseholdInclusive(c, env) ==
    LET maxUsers == MaxUsersOf(env)
    IN [canAdd |-> c <= maxUsers,
        currentUsers |-> c,
        maxUsers |-> maxUsers,
        remainingSlots |-> maxUsers - c]

\* the record canAddUserToHousehold resolves to, for a count read of c
canAddUserToHousehold(c, env) ==
    LET maxUsers == MaxUsersOf(env)
    IN [canAdd |-> c < maxUsers,
        currentUsers |-> c,
        maxUsers |-> maxUsers,
        remainingSlots |-> maxUsers - c]

\* --------------------------------------------------------------- requests
NoRes == [status |-> 0]

\* user   req.user.id, or the id of the user a registration created
\* hid    req.params.householdId, or the id of the household a registration created
\* target the lower-cased e-mail's owner (register, invite), req.params.userId
\*        (remove), req.params.invitationId (accept)
\* capHid, userCount, maxUsers  checkUserCap's householdId, req.userCount, req.maxUsers
\* cap, inv  the accept route's capacityCheck and invitation
IdleReq == [kind |-> "none", pc |-> "idle", user |-> NoId, hid |-> NoId,
            target |-> NoId, capHid |-> NoId, userCount |-> -1, maxUsers |-> -1,
            cap |-> NoCap, inv |-> NoInvitation, res |-> NoRes]

NewReq(kind, u, hid, target) ==
    [IdleReq EXCEPT !.kind = kind, !.user = u, !.hid = hid, !.target = target]

\* res.status(..).json(body) ends the request; what stays of it is the answer,
\* the target it named and what the capacity checks computed
Done(q, body) == [IdleReq EXCEPT !.kind = q.kind, !.pc = "done", !.res = body,
                                 !.target = q.target, !.capHid = q.capHid,
                                 !.cap = q.cap]

\* res.status(s).json({error: e})
Fail(q, s, e) == Done(q, [status |-> s, error |-> e])

\* an answer is on the wire: res.json() has returned and nothing else of the
\* request runs, so the slot is handed back before any other step
Answering == \E r \in Reqs : req[r].pc = "done"

\* the lowest free slot takes the next request
FreeSlot(r) ==
    /\ ~Answering
    /\ req[r].pc = "idle"
    /\ \A q \in Reqs : q < r => req[q].pc # "idle"

\* request r resumes after the await that left it at pc
At(r, pc) == ~Answering /\ req[r].pc = pc

\* passport's jwt strategy hands over a users row
authenticateJWT(u) == userRole[u] # "none"

\* authorize(['admin']) looks at users.role
authorize(u) == userRole[u] = "admin"

\* ------------------------------------------------------------ checkUserCap
\* req.body.householdId || req.params.householdId || req.user?.householdId
\* (a users row has no householdId)
CapHouseholdId(bodyHid, paramHid) == IF bodyHid # NoId THEN bodyHid ELSE paramHid

\* the 403 of checkUserCap
UserLimitReached(currentUserCount, maxUsers) ==
    [status |-> 403, error |-> "User limit reached",
     currentUsers |-> currentUserCount, maxUsers |-> maxUsers]

\* checkUserCap comparing with > : a household at the limit passes
checkUserCapStrict(q, bodyHid, ok, nextPc) ==
    LET householdId == CapHouseholdId(bodyHid, q.hid)
        currentUserCount == ActiveCount(householdId)
        maxUsers == MaxUsersOf(maxUsersEnv)
        q1 == [q EXCEPT !.capHid = householdId]
    IN IF householdId = NoId THEN Fail(q1, 400, "Household ID is required")
       ELSE IF ~ok THEN Fail(q1, 500, "Failed to check user limit")
       ELSE IF currentUserCount > maxUsers
            THEN Done(q1, UserLimitReached(currentUserCount, maxUsers))
       ELSE [q1 EXCEPT !.pc = nextPc,
                       !.userCount = currentUserCount, !.maxUsers = maxUsers]

\* the middleware in front of POST /register and POST /:householdId/invite:
\* the request it leaves behind.  bodyHid = req.body.householdId, ok = the
\* count query resolves, nextPc = where next() leads
checkUserCap(q, bodyHid, ok, nextPc) ==
    LET householdId == CapHouseholdId(bodyHid, q.hid)
        currentUserCount == ActiveCount(householdId)
        maxUsers == MaxUsersOf(maxUsersEnv)
        q1 == [q EXCEPT !.capHid = householdId]
    IN IF householdId = NoId THEN Fail(q1, 400, "Household ID is required")
       ELSE IF ~ok THEN Fail(q1, 500, "Failed to check user limit")
       ELSE IF currentUserCount >= maxUsers
            THEN Done(q1, UserLimitReached(currentUserCount, maxUsers))
       ELSE [q1 EXCEPT !.pc = nextPc,
                       !.userCount = currentUserCount, !.maxUsers = maxUsers]

\* ------------------------------------------------- checkHouseholdMembership
\* checkHouseholdMembership('full'): an active admin membership of
\* req.params.householdId; the request it leaves behind
checkHouseholdMembership(q, ok, nextPc) ==
    LET rows == {m \in MemberRows(q.hid, q.user) : m.is_active}
    IN IF ~ok THEN Fail(q, 500, "Internal server error")
       ELSE IF rows = {} THEN Fail(q, 403, "Not a member of this household")
       ELSE IF \E m \in rows : m.role # "admin" THEN Fail(q, 403, "Admin access required")
       ELSE [q EXCEPT !.pc = nextPc]

\* ---------------------------------------------------- POST /auth/register
\* the request arrives at checkUserCap
RegisterCap(r, bodyHid, ok) ==
    /\ FreeSlot(r)
    /\ req' = [req EXCEPT ![r] =
                 checkUserCap(NewReq("register", NoId, NoId, NoId), bodyHid, ok,
                              "reg_lookup")]
    /\ UNCHANGED <<maxUsersEnv, userRole, households, members, invitations, now, probe, gateway>>

\* input validation (fieldsOk = the required fields are there and the
\* password is long enough), then the users lookup by lower-cased e-mail
RegisterLookup(r, email, fieldsOk, ok) ==
    /\ At(r, "reg_lookup")
    /\ req' = [req EXCEPT ![r] =
         IF ~fieldsOk THEN Fail(@, 400, "All required fields must be provided")
         ELSE IF ~ok THEN Fail(@, 500, "Registration failed")
         ELSE IF userRole[toLowerCase(email)[1]] # "none"
              THEN Fail(@, 400, "User already exists with this email or username")
         ELSE [@ EXCEPT !.pc = "reg_user", !.target = toLowerCase(email)[1]]]
    /\ UNCHANGED <<maxUsersEnv, userRole, households, members, invitations, now, probe, gateway>>

\* db('users').insert({email: email.toLowerCase(), role: 'user'}); users.email
\* is unique
RegisterInsertUser(r, ok) ==
    /\ At(r, "reg_user")
    /\ LET u == req[r].target
       IN IF ok /\ userRole[u] = "none"
          THEN /\ userRole' = [userRole EXCEPT ![u] = "user"]
               /\ req' = [req EXCEPT ![r].pc = "reg_household", ![r].user = u]
          ELSE /\ req' = [req EXCEPT ![r] = Fail(@, 500, "Registration failed")]
               /\ UNCHANGED userRole
    /\ UNCHANGED <<maxUsersEnv, households, members, invitations, now, probe, gateway>>

\* gen_random_uuid(): an id no household has
FreshHousehold == CHOOSE h \in Households \ households :
                      \A g \in Households \ households : h <= g

\* db('households').insert({owner_id: newUser.id})
RegisterInsertHousehold(r, ok) ==
    /\ At(r, "reg_household")
    /\ IF ok
       THEN /\ households' = households \cup {FreshHousehold}
            /\ req' = [req EXCEPT ![r].pc = "reg_member", ![r].hid = FreshHousehold]
       ELSE /\ req' = [req EXCEPT ![r] = Fail(@, 500, "Registration failed")]
            /\ UNCHANGED households
    /\ UNCHANGED <<maxUsersEnv, userRole, members, invitations, now, probe, gateway>>

\* db('household_members').insert({household_id: household.id, role: 'admin'}),
\* then the welcome mail, the limit alert and the 201 answer
RegisterInsertMember(r, ok) ==
    /\ At(r, "reg_member")
    /\ IF ok
       THEN /\ members' = members \cup {Member(req[r].hid, req[r].user, "admin", TRUE)}
            /\ req' = [req EXCEPT ![r] =
                         Done(@, [status |-> 201,
                                  message |-> "User registered successfully"])]
       ELSE /\ req' = [req EXCEPT ![r] = Fail(@, 500, "Registration failed")]
            /\ UNCHANGED members
    /\ UNCHANGED <<maxUsersEnv, userRole, households, invitations, now, probe, gateway>>

\* --------------------------------------------- POST /:householdId/invite
\* authenticateJWT, authorize(['admin']), checkHouseholdMembership('full')
InviteMembership(r, u, hid, ok) ==
    /\ FreeSlot(r)
    /\ authenticateJWT(u)
    /\ req' = [req EXCEPT ![r] =
                 IF ~authorize(u)
                 THEN Fail(NewReq("invite", u, hid, NoId), 403, "Insufficient permissions")
                 ELSE checkHouseholdMembership(NewReq("invite", u, hid, NoId), ok,
                                               "inv_cap")]
    /\ UNCHANGED <<maxUsersEnv, userRole, households, members, invitations, now, probe, gateway>>

\* checkUserCap
InviteCap(r, bodyHid, ok) ==
    /\ At(r, "inv_cap")
    /\ req' = [req EXCEPT ![r] = checkUserCap(@, bodyHid, ok, "inv_user")]
    /\ UNCHANGED <<maxUsersEnv, userRole, households, members, invitations, now, probe, gateway>>

\* `if (!email)`, then db('users').where({email: email.toLowerCase()}).first()
InviteFindUser(r, email, ok) ==
    /\ At(r, "inv_user")
    /\ req' = [req EXCEPT ![r] =
         IF email[1] = NoId THEN Fail(@, 400, "Email is required")
         ELSE IF ~ok THEN Fail(@, 500, "Failed to send invitation")
         ELSE [@ EXCEPT !.pc = IF userRole[toLowerCase(email)[1]] # "none"
                                THEN "inv_member" ELSE "inv_insert",
                        !.target = toLowerCase(email)[1]]]
    /\ UNCHANGED <<maxUsersEnv, userRole, households, members, invitations, now, probe, gateway>>

\* db('household_members').where({household_id, user_id: existingUser.id}).first()
InviteFindMember(r, ok) ==
    /\ At(r, "inv_member")
    /\ LET rows == MemberRows(req[r].hid, req[r].target)
       IN req' = [req EXCEPT ![r] =
            IF ~ok THEN Fail(@, 500, "Failed to send invitation")
            ELSE IF rows = {} THEN [@ EXCEPT !.pc = "inv_insert"]
            ELSE IF \E m \in rows : m.is_active
                 THEN Fail(@, 400, "User is already a member of this household")
            ELSE [@ EXCEPT !.pc = "inv_react"]]
    /\ UNCHANGED <<maxUsersEnv, userRole, households, members, invitations, now, probe, gateway>>

\* update({is_active: true, role}) of the row found, whatever it holds by now
InviteReactivate(r, role, ok) ==
    /\ At(r, "inv_react")
    /\ IF ok
       THEN /\ members' = (members \ MemberRows(req[r].hid, req[r].target)) \cup
                   {Member(req[r].hid, req[r].target, role, TRUE)}
            /\ req' = [req EXCEPT ![r] =
                         Done(@, [status |-> 200,
                                  message |-> "User reactivated successfully"])]
       ELSE /\ req' = [req EXCEPT ![r] = Fail(@, 500, "Failed to send invitation")]
            /\ UNCHANGED members
    /\ UNCHANGED <<maxUsersEnv, userRole, households, invitations, now, probe, gateway>>

\* uuidv4(): an id no invitation has
FreeInvIds == {i \in InvIds : invitations[i].status = "none"}
FreshInvitation == CHOOSE i \in FreeInvIds : \A j \in FreeInvIds : i <= j

\* jwt.sign (signOk = it returns), the invitation insert (ok), then the
\* households read and the mail (mailOk), then the answer
InviteInsert(r, role, signOk, ok, mailOk) ==
    /\ At(r, "inv_insert")
    /\ FreeInvIds # {}
    /\ IF signOk /\ ok
       THEN /\ invitations' = [invitations EXCEPT ![FreshInvitation] =
                   [household_id |-> req[r].hid,
                    email |-> EmailOf(req[r].target),
                    role |-> role,
                    status |-> "pending",
                    expires_at |-> now + InvitationTtlDays]]
            /\ req' = [req EXCEPT ![r] =
                   IF mailOk
                   THEN Done(@, [status |-> 200,
                                 message |-> "Invitation sent successfully",
                                 invitationId |-> FreshInvitation,
                                 remainingSlots |-> @.maxUsers - (@.userCount + 1)])
                   ELSE Fail(@, 500, "Failed to send invitation")]
       ELSE /\ req' = [req EXCEPT ![r] = Fail(@, 500, "Failed to send invitation")]
            /\ UNCHANGED invitations
    /\ UNCHANGED <<maxUsersEnv, userRole, households, members, now, probe, gateway>>

\* ------------------------------------ POST /invitations/:invitationId/accept
\* the lookup filtering on id and status only
PendingInvitationAnyAge(i, t) == invitations[i].status = "pending"

\* where({id, status: 'pending', expires_at > new Date()}).first()
PendingInvitation(i, t) ==
    /\ invitations[i].status = "pending"
    /\ invitations[i].expires_at > t

\* authenticateJWT, the invitation lookup and the e-mail comparison
AcceptLookup(r, u, invitationId, ok) ==
    /\ FreeSlot(r)
    /\ authenticateJWT(u)
    /\ LET q == NewReq("accept", u, NoId, invitationId)
       IN req' = [req EXCEPT ![r] =
            IF ~ok THEN Fail(q, 500, "Failed to accept invitation")
            ELSE IF ~PendingInvitation(invitationId, now)
                 THEN Fail(q, 400, "Invalid or expired invitation")
            ELSE IF EmailOf(u) # invitations[invitationId].email
                 THEN Fail(q, 403, "Invitation is for a different email address")
            ELSE [q EXCEPT !.pc = "acc_cap", !.inv = invitations[invitationId]]]
    /\ UNCHANGED <<maxUsersEnv, userRole, households, members, invitations, now, probe, gateway>>

\* the 403 of the accept route
AcceptLimitReached(capacityCheck) ==
    [status |-> 403, error |-> "User limit reached",
     message |-> [maxUsers |-> capacityCheck.maxUsers]]

\* the accept route denying on remainingSlots < 0 instead of !canAdd
AcceptCheckNoSlotLeft(r, ok) ==
    /\ At(r, "acc_cap")
    /\ LET capacityCheck ==
               canAddUserToHousehold(ActiveCount(req[r].inv.household_id), maxUsersEnv)
       IN req' = [req EXCEPT ![r] =
            IF ~ok THEN Fail(@, 500, "Failed to accept invitation")
            ELSE IF capacityCheck.remainingSlots < 0
                 THEN Done([@ EXCEPT !.cap = capacityCheck,
                                     !.capHid = req[r].inv.household_id],
                           AcceptLimitReached(capacityCheck))
            ELSE [@ EXCEPT !.pc = "acc_insert", !.cap = capacityCheck,
                           !.capHid = req[r].inv.household_id]]
    /\ UNCHANGED <<maxUsersEnv, userRole, households, members, invitations, now, probe, gateway>>

\* capacityCheck = await canAddUserToHousehold(invitation.household_id)
AcceptCheck(r, ok) ==
    /\ At(r, "acc_cap")
    /\ LET capacityCheck ==
               canAddUserToHousehold(ActiveCount(req[r].inv.household_id), maxUsersEnv)
       IN req' = [req EXCEPT ![r] =
            IF ~ok THEN Fail(@, 500, "Failed to accept invitation")
            ELSE IF ~capacityCheck.canAdd
                 THEN Done([@ EXCEPT !.cap = capacityCheck,
                                     !.capHid = req[r].inv.household_id],
                           AcceptLimitReached(capacityCheck))
            ELSE [@ EXCEPT !.pc = "acc_insert", !.cap = capacityCheck,
                           !.capHid = req[r].inv.household_id]]
    /\ UNCHANGED <<maxUsersEnv, userRole, households, members, invitations, now, probe, gateway>>

\* the insert with the conflict on (household_id, user_id) ignored
AcceptInsertIgnoreConflict(r, ok) ==
    /\ At(r, "acc_insert")
    /\ IF ok
       THEN /\ members' =
                   IF MemberRows(req[r].inv.household_id, req[r].user) = {}
                   THEN members \cup {Member(req[r].inv.household_id, req[r].user,
                                             req[r].inv.role, TRUE)}
                   ELSE members
            /\ req' = [req EXCEPT ![r].pc = "acc_update"]
       ELSE /\ req' = [req EXCEPT ![r] = Fail(@, 500, "Failed to accept invitation")]
            /\ UNCHANGED members
    /\ UNCHANGED <<maxUsersEnv, userRole, households, invitations, now, probe, gateway>>

\* the insert overwriting the row that holds the key (household_id, user_id)
AcceptInsertUpsert(r, ok) ==
    /\ At(r, "acc_insert")
    /\ IF ok
       THEN /\ members' = (members \ MemberRows(req[r].inv.household_id, req[r].user))
                   \cup {Member(req[r].inv.household_id, req[r].user,
                                req[r].inv.role, TRUE)}
            /\ req' = [req EXCEPT ![r].pc = "acc_update"]
       ELSE /\ req' = [req EXCEPT ![r] = Fail(@, 500, "Failed to accept invitation")]
            /\ UNCHANGED members
    /\ UNCHANGED <<maxUsersEnv, userRole, households, invitations, now, probe, gateway>>

\* db('household_members').insert({..., is_active: true}); the unique key on
\* (household_id, user_id) rejects a second row
AcceptInsert(r, ok) ==
    /\ At(r, "acc_insert")
    /\ IF ok /\ MemberRows(req[r].inv.household_id, req[r].user) = {}
       THEN /\ members' = members \cup
                   {Member(req[r].inv.household_id, req[r].user, req[r].inv.role, TRUE)}
            /\ req' = [req EXCEPT ![r].pc = "acc_update"]
       ELSE /\ req' = [req EXCEPT ![r] = Fail(@, 500, "Failed to accept invitation")]
            /\ UNCHANGED members
    /\ UNCHANGED <<maxUsersEnv, userRole, households, invitations, now, probe, gateway>>

\* where({id: invitationId}).update({status: 'accepted'}), the limit alert
\* and the answer
AcceptUpdate(r, ok) ==
    /\ At(r, "acc_update")
    /\ IF ok
       THEN /\ invitations' = [invitations EXCEPT ![req[r].target].status = "accepted"]
            /\ req' = [req EXCEPT ![r] =
                         Done(@, [status |-> 200,
                                  message |-> "Invitation accepted successfully",
                                  householdId |-> @.inv.household_id])]
       ELSE /\ req' = [req EXCEPT ![r] = Fail(@, 500, "Failed to accept invitation")]
            /\ UNCHANGED invitations
    /\ UNCHANGED <<maxUsersEnv, userRole, households, members, now, probe, gateway>>

\* ------------------------------------ DELETE /:householdId/users/:userId
\* authenticateJWT, authorize(['admin']), checkHouseholdMembership('full')
RemoveMembership(r, u, hid, userId, ok) ==
    /\ FreeSlot(r)
    /\ authenticateJWT(u)
    /\ req' = [req EXCEPT ![r] =
                 IF ~authorize(u)
                 THEN Fail(NewReq("remove", u, hid, userId), 403,
                           "Insufficient permissions")
                 ELSE checkHouseholdMembership(NewReq("remove", u, hid, userId), ok,
                                               "rm_lookup")]
    /\ UNCHANGED <<maxUsersEnv, userRole, households, members, invitations, now, probe, gateway>>

\* self-removal guard, then the lookup of the active member row
RemoveLookup(r, ok) ==
    /\ At(r, "rm_lookup")
    /\ req' = [req EXCEPT ![r] =
         IF @.target = @.user
         THEN Fail(@, 400, "Cannot remove yourself from the household")
         ELSE IF ~ok THEN Fail(@, 500, "Failed to remove user from household")
         ELSE IF {m \in MemberRows(@.hid, @.target) : m.is_active} = {}
              THEN Fail(@, 404, "User not found in household")
         ELSE [@ EXCEPT !.pc = "rm_update"]]
    /\ UNCHANGED <<maxUsersEnv, userRole, households, members, invitations, now, probe, gateway>>

\* where({id: member.id}).update({is_active: false})
RemoveUpdate(r, ok) ==
    /\ At(r, "rm_update")
    /\ IF ok
       THEN /\ members' = {IF m.household_id = req[r].hid /\ m.user_id = req[r].target
                           THEN [m EXCEPT !.is_active = FALSE] ELSE m : m \in members}
            /\ req' = [req EXCEPT ![r] =
                         Done(@, [status |-> 200,
                                  message |-> "User removed from household successfully"])]
       ELSE /\ req' = [req EXCEPT ![r] =
                         Fail(@, 500, "Failed to remove user from household")]
            /\ UNCHANGED members
    /\ UNCHANGED <<maxUsersEnv, userRole, households, invitations, now, probe, gateway>>

\* ------------------------------------------------------------ environment
\* the answer has been sent; the slot serves the next request
Finish(r) ==
    /\ req[r].pc = "done"
    /\ req' = [req EXCEPT ![r] = IdleReq]
    /\ UNCHANGED <<maxUsersEnv, userRole, households, members, invitations, now, probe, gateway>>

\* time passes
Tick ==
    /\ ~Answering
    /\ now + DayStep <= MaxTime
    /\ now' = now + DayStep
    /\ UNCHANGED <<maxUsersEnv, userRole, households, members, invitations, req, probe, gateway>>


\* ============================================================ socket gateway
\* websocket server (src/unnamed/part_006).  Socket.io runs the handlers of
\* one instance one at a time; a handler gives way at each await.  Room
\* emits reach the sockets of every instance through the redis adapter.
\* households.is_active has no writer in the repository: every households
\* row is active.  The redis subscriber keeps its listeners per channel, and
\* subscribe/unsubscribe change them in call order.

\* ---------------------------------------------------------------- rooms
UserRoom(u) == <<"user", u>>             \* `user:${socket.user.id}`
HouseholdRoom(h) == <<"household", h>>   \* `household:${household.id}`
CollabRoom(d) == <<"collab", d>>         \* `collab:${documentType}:${documentId}`
ChatRoom(c) == <<"chat", c>>             \* `chat:${roomType}:${roomId}`
NoRoom == <<"none", NoId>>

\* --------------------------------------------------------------- tokens
\* socket.handshake.auth.token: absent, one jwt.verify throws on, or one
\* that decodes to a user id
NoToken == [kind |-> "none", id |-> NoId]
BadToken == [kind |-> "bad", id |-> NoId]
GoodToken(u) == [kind |-> "good", id |-> u]
Tokens == {NoToken, BadToken} \cup {GoodToken(u) : u \in Users}

\* ----------------------------------------------------------------- text
\* a chat text is a string of blanks and letters; NoText is no text at all
NoText == <<"undefined">>
Texts == {<<>>, <<" ">>, <<" ", " ">>, <<"a">>, <<" ", "a", " ">>}

RECURSIVE trimStart(_)
trimStart(t) == IF t # <<>> /\ Head(t) = " " THEN trimStart(Tail(t)) ELSE t

RECURSIVE trimEnd(_)
trimEnd(t) == IF t # <<>> /\ t[Len(t)] = " "
              THEN trimEnd(SubSeq(t, 1, Len(t) - 1)) ELSE t

\* String.prototype.trim
trim(t) == trimEnd(trimStart(t))

\* -------------------------------------------------------------- sockets
\* state      closed (no such socket), auth (io.use awaits its second query),
\*            refused (next(err) was called), open, closing (the client has
\*            closed), silent (the client has stopped answering pings)
\* households socket.user.households, the ids loaded by io.use
\* sending    the chat:message handler awaiting its insert
\* fetching   the room sendRecentMessages is querying
NoSend == [room |-> NoRoom, id |-> NoId, message |-> <<>>]

ClosedSocket == [state |-> "closed", instance |-> NoId, token |-> NoToken,
                 user |-> NoId, households |-> {}, rooms |-> {}, error |-> "",
                 sending |-> NoSend, fetching |-> NoRoom]

\* the server holds the socket: it is in its rooms and is sent events
Connected(s) == sockets[s].state \in {"open", "closing", "silent"}

\* io.to(room): the connected sockets that have joined room
InRoom(room) == {s \in Socks : Connected(s) /\ room \in sockets[s].rooms}

\* what one emit call sends.  to: the sockets it is sent to; list: the ids it
\* carries (message ids, collaborators, push recipients)
Emission(name, to, user, list, message) ==
    [name |-> name, to |-> to, user |-> user, list |-> list, message |-> message]

\* socket.emit('error', {message})
ErrorTo(s, message) ==
    Emission("error", {s} \cap {q \in Socks : Connected(q)}, NoId, <<>>, message)

\* next(err) is on its way to the client: the socket is dropped before
\* anything else happens
Refusing == \E s \in Socks : sockets[s].state = "refused"

\* the lowest slot that is free and has no handler left behind takes the
\* next connection
FreeSock(s) ==
    /\ ~Refusing
    /\ sockets[s] = ClosedSocket
    /\ \A q \in Socks : q < s => sockets[q] # ClosedSocket

\* an event of an open socket is handled
Open(s) == ~Refusing /\ sockets[s].state = "open"

\* user.locked_until && new Date() < new Date(user.locked_until)
Locked(u) == accounts[u].locked_until # NoLock /\ now < accounts[u].locked_until

\* ---------------------------------------------------------------- io.use
Refused(token, message) ==
    [ClosedSocket EXCEPT !.state = "refused", !.token = token, !.error = message]

\* io.use without the locked_until check
AuthVerifyNoLockCheck(s, instance, token, ok) ==
    /\ FreeSock(s)
    /\ sockets' = [sockets EXCEPT ![s] =
         IF token.kind = "none" THEN Refused(token, "Authentication token required")
         ELSE IF token.kind = "bad" \/ ~ok THEN Refused(token, "Authentication failed")
         ELSE IF ~(userRole[token.id] # "none" /\ accounts[token.id].is_active)
              THEN Refused(token, "Invalid authentication token")
         ELSE [ClosedSocket EXCEPT !.state = "auth", !.instance = instance,
                                   !.token = token, !.user = token.id]]
    /\ emitted' = <<>>
    /\ UNCHANGED <<maxUsersEnv, userRole, households, members, invitations, now, req,
                   probe, accounts, chat_messages, chat_sent, notifying, listeners,
                   onlineUsers, collab>>

\* token check, jwt.verify, the users lookup and the lock check
AuthVerify(s, instance, token, ok) ==
    /\ FreeSock(s)
    /\ sockets' = [sockets EXCEPT ![s] =
         IF token.kind = "none" THEN Refused(token, "Authentication token required")
         ELSE IF token.kind = "bad" \/ ~ok THEN Refused(token, "Authentication failed")
         ELSE IF ~(userRole[token.id] # "none" /\ accounts[token.id].is_active)
              THEN Refused(token, "Invalid authentication token")
         ELSE IF Locked(token.id)
              THEN Refused(token, "Account is temporarily locked")
         ELSE [ClosedSocket EXCEPT !.state = "auth", !.instance = instance,
                                   !.token = token, !.user = token.id]]
    /\ emitted' = <<>>
    /\ UNCHANGED <<maxUsersEnv, userRole, households, members, invitations, now, req,
                   probe, accounts, chat_messages, chat_sent, notifying, listeners,
                   onlineUsers, collab>>

\* the households query without its is_active conditions
ActiveHouseholdsAnyRow(u) ==
    {h \in households : MemberRows(h, u) # {}}

\* household_members join households where user_id, both is_active
ActiveHouseholds(u) ==
    {h \in households : \E m \in MemberRows(h, u) : m.is_active}

\* the households query and next(), then the connection handler: the rooms,
\* the user:online broadcast and the redis subscription
AuthHouseholds(s, ok) ==
    /\ ~Refusing
    /\ sockets[s].state = "auth"
    /\ LET u == sockets[s].user
       IN IF ok
          THEN /\ sockets' = [sockets EXCEPT ![s].state = "open",
                                ![s].households = ActiveHouseholds(u),
                                ![s].rooms = {UserRoom(u)} \cup
                                    {HouseholdRoom(h) : h \in ActiveHouseholds(u)}]
               /\ emitted' = <<Emission("user:online",
                                        {q \in Socks : Connected(q)} \ {s}, u, <<>>, "")>>
               /\ listeners' = listeners \cup {<<sockets[s].instance, u, s>>}
               /\ onlineUsers' = onlineUsers \cup {u}
          ELSE /\ sockets' = [sockets EXCEPT ![s] =
                                Refused(@.token, "Authentication failed")]
               /\ emitted' = <<>>
               /\ UNCHANGED <<listeners, onlineUsers>>
    /\ UNCHANGED <<maxUsersEnv, userRole, households, members, invitations, now, req,
                   probe, accounts, chat_messages, chat_sent, notifying, collab>>

\* the refused connection is gone
Refuse(s) ==
    /\ sockets[s].state = "refused"
    /\ sockets' = [sockets EXCEPT ![s] = ClosedSocket]
    /\ emitted' = <<>>
    /\ UNCHANGED <<maxUsersEnv, userRole, households, members, invitations, now, req,
                   probe, accounts, chat_messages, chat_sent, notifying, listeners,
                   onlineUsers, collab>>

\* ----------------------------------------------------------- collab:join
\* io.sockets.adapter.rooms.get(roomName): the sockets of this instance in
\* the room, as the users of the collaborators list
RECURSIVE UsersOf(_)
UsersOf(ss) ==
    IF ss = {} THEN <<>>
    ELSE LET s == CHOOSE q \in ss : \A p \in ss : q <= p
         IN <<sockets[s].user>> \o UsersOf(ss \ {s})

\* collab:join joining the room before it checks the household
CollabJoinThenCheck(s, named, d, householdId) ==
    /\ Open(s)
    /\ IF ~named
       THEN /\ emitted' = <<ErrorTo(s, "Document type and ID required")>>
            /\ UNCHANGED sockets
       ELSE /\ sockets' = [sockets EXCEPT ![s].rooms = @ \cup {CollabRoom(d)}]
            /\ emitted' =
                 IF householdId # NoId /\ householdId \notin sockets[s].households
                 THEN <<ErrorTo(s, "Access denied to this household")>>
                 ELSE <<Emission("collab:user-joined", InRoom(CollabRoom(d)) \ {s},
                                 sockets[s].user, <<>>, ""),
                        Emission("collab:collaborators", {s}, sockets[s].user,
                                 UsersOf({q \in InRoom(CollabRoom(d)) \cup {s} :
                                            sockets[q].instance = sockets[s].instance}),
                                 "")>>
    /\ UNCHANGED <<maxUsersEnv, userRole, households, members, invitations, now, req,
                   probe, accounts, chat_messages, chat_sent, notifying, listeners,
                   onlineUsers, collab>>

\* collab:join listing the sessions of the room on every instance
CollabJoinAllInstances(s, named, d, householdId) ==
    /\ Open(s)
    /\ IF ~named
       THEN /\ emitted' = <<ErrorTo(s, "Document type and ID required")>>
            /\ UNCHANGED sockets
       ELSE IF householdId # NoId /\ householdId \notin sockets[s].households
       THEN /\ emitted' = <<ErrorTo(s, "Access denied to this household")>>
            /\ UNCHANGED sockets
       ELSE /\ sockets' = [sockets EXCEPT ![s].rooms = @ \cup {CollabRoom(d)}]
            /\ emitted' =
                 <<Emission("collab:user-joined", InRoom(CollabRoom(d)) \ {s},
                            sockets[s].user, <<>>, ""),
                   Emission("collab:collaborators", {s}, sockets[s].user,
                            UsersOf(InRoom(CollabRoom(d)) \cup {s}), "")>>
    /\ UNCHANGED <<maxUsersEnv, userRole, households, members, invitations, now, req,
                   probe, accounts, chat_messages, chat_sent, notifying, listeners,
                   onlineUsers, collab>>

\* named: documentType and documentId are there; d: the document they name
CollabJoin(s, named, d, householdId) ==
    /\ Open(s)
    /\ IF ~named
       THEN /\ emitted' = <<ErrorTo(s, "Document type and ID required")>>
            /\ UNCHANGED sockets
       ELSE IF householdId # NoId /\ householdId \notin sockets[s].households
       THEN /\ emitted' = <<ErrorTo(s, "Access denied to this household")>>
            /\ UNCHANGED sockets
       ELSE /\ sockets' = [sockets EXCEPT ![s].rooms = @ \cup {CollabRoom(d)}]
            /\ emitted' =
                 <<Emission("collab:user-joined", InRoom(CollabRoom(d)) \ {s},
                            sockets[s].user, <<>>, ""),
                   Emission("collab:collaborators", {s}, sockets[s].user,
                            UsersOf({q \in InRoom(CollabRoom(d)) \cup {s} :
                                       sockets[q].instance = sockets[s].instance}),
                            "")>>
    /\ UNCHANGED <<maxUsersEnv, userRole, households, members, invitations, now, req,
                   probe, accounts, chat_messages, chat_sent, notifying, listeners,
                   onlineUsers, collab>>

\* collab:leave
CollabLeave(s, d) ==
    /\ Open(s)
    /\ sockets' = [sockets EXCEPT ![s].rooms = @ \ {CollabRoom(d)}]
    /\ emitted' = <<Emission("collab:user-left", InRoom(CollabRoom(d)) \ {s},
                             sockets[s].user, <<>>, "")>>
    /\ UNCHANGED <<maxUsersEnv, userRole, households, members, invitations, now, req,
                   probe, accounts, chat_messages, chat_sent, notifying, listeners,
                   onlineUsers, collab>>

\* ------------------------------------------------------------ collab:edit
\* the operation of a collab:edit request: one of the three the handler
\* knows, another word, or none
NoOperation == "undefined"
Operations == {"update", "delete", "create", "merge", NoOperation}

\* variant: any operation that is there passes the validation
AnyOperation(operation) == operation # NoOperation

\* ['update', 'delete', 'create'].includes(operation)
ValidOperation(operation) == operation \in {"update", "delete", "create"}

\* ids of the edits whose insert is pending or done
EditIds == {e.id : e \in edits} \cup {row.id : row \in activity_logs}

\* collab:edit: the validation, then socket.to(roomName).emit('collab:edit'),
\* then the handler awaits the insert into activity_logs
CollabEdit(s, d, operation) ==
    /\ Open(s)
    /\ IF ~ValidOperation(operation)
       THEN /\ emitted' = <<ErrorTo(s, "Invalid operation")>>
            /\ UNCHANGED edits
       ELSE /\ \E id \in 1..MaxEdits : id \notin EditIds
            /\ emitted' = <<Emission("collab:edit", InRoom(CollabRoom(d)) \ {s},
                                     sockets[s].user, <<>>, operation)>>
            /\ edits' = edits \cup
                 {[id |-> CHOOSE id \in 1..MaxEdits :
                              id \notin EditIds /\ \A k \in 1..(id - 1) : k \in EditIds,
                   instance |-> sockets[s].instance, socket |-> s,
                   user |-> sockets[s].user, room |-> CollabRoom(d),
                   operation |-> operation]}
    /\ UNCHANGED <<maxUsersEnv, userRole, households, members, invitations, now, req,
                   probe, accounts, chat_messages, chat_sent, notifying, sockets,
                   listeners, onlineUsers, timers, clock, highlighted, activity_logs>>

\* await db('activity_logs').insert(...) of edit id returns: the row is
\* there, or the catch block sends 'Edit operation failed' to the socket
CollabEditInsert(id, ok) ==
    /\ ~Refusing
    /\ \E e \in edits : e.id = id
    /\ LET e == CHOOSE x \in edits : x.id = id
       IN /\ edits' = edits \ {e}
          /\ IF ok
             THEN /\ activity_logs' = activity_logs \cup
                        {[id |-> id, user_id |-> e.user, resource |-> e.room,
                          operation |-> e.operation]}
                  /\ emitted' = <<>>
             ELSE /\ emitted' = <<ErrorTo(e.socket, "Edit operation failed")>>
                  /\ UNCHANGED activity_logs
    /\ UNCHANGED <<maxUsersEnv, userRole, households, members, invitations, now, req,
                   probe, accounts, chat_messages, chat_sent, notifying, sockets,
                   listeners, onlineUsers, timers, clock, highlighted>>

\* ------------------------------------------------------- collab:highlight
\* the callback of a highlight's setTimeout broadcasting with io.to(roomName)
HighlightTimerToRoom(id) ==
    /\ ~Refusing
    /\ \E x \in timers : x.id = id
    /\ LET t == CHOOSE x \in timers : x.id = id
       IN /\ clock >= t.due
          /\ timers' = timers \ {t}
          /\ emitted' = <<Emission("collab:highlight-remove", InRoom(t.room),
                                   t.user, <<t.item, t.id>>, "")>>
    /\ UNCHANGED <<maxUsersEnv, userRole, households, members, invitations, now, req,
                   probe, accounts, chat_messages, chat_sent, notifying, sockets,
                   listeners, onlineUsers, clock, highlighted, activity_logs, edits>>

\* collab:highlight: socket.to(roomName).emit('collab:highlight', {userId,
\* itemId, note}), then setTimeout(.., 30000).  The timer lives on the
\* socket's instance and holds the socket, the room name and the item; id
\* tells the timers of a run apart.
CollabHighlight(s, d, item) ==
    /\ Open(s)
    /\ highlighted < MaxHighlights
    /\ clock + HighlightDelay <= MaxClock
    /\ emitted' = <<Emission("collab:highlight", InRoom(CollabRoom(d)) \ {s},
                             sockets[s].user, <<item>>, "")>>
    /\ timers' = timers \cup
                   {[id |-> highlighted + 1, instance |-> sockets[s].instance,
                     socket |-> s, user |-> sockets[s].user, room |-> CollabRoom(d),
                     item |-> item, due |-> clock + HighlightDelay]}
    /\ highlighted' = highlighted + 1
    /\ UNCHANGED <<maxUsersEnv, userRole, households, members, invitations, now, req,
                   probe, accounts, chat_messages, chat_sent, notifying, sockets,
                   listeners, onlineUsers, clock, activity_logs, edits>>

\* the timer's delay has elapsed and its callback runs:
\* socket.to(roomName).emit('collab:highlight-remove', {userId, itemId})
HighlightTimer(id) ==
    /\ ~Refusing
    /\ \E x \in timers : x.id = id
    /\ LET t == CHOOSE x \in timers : x.id = id
       IN /\ clock >= t.due
          /\ timers' = timers \ {t}
          /\ emitted' = <<Emission("collab:highlight-remove", InRoom(t.room) \ {t.socket},
                                   t.user, <<t.item, t.id>>, "")>>
    /\ UNCHANGED <<maxUsersEnv, userRole, households, members, invitations, now, req,
                   probe, accounts, chat_messages, chat_sent, notifying, sockets,
                   listeners, onlineUsers, clock, highlighted, activity_logs, edits>>

\* the time until the next timer is due
NextDue == CHOOSE d \in {t.due - clock : t \in timers} :
               \A t \in timers : d <= t.due - clock

\* time passes: TimeStep milliseconds, or the time until the next timer is
\* due.  A timer's callback runs when its delay has elapsed: time does not
\* pass beyond a due timer
Elapse(toDue) ==
    /\ ~Refusing
    /\ toDue => timers # {}
    /\ LET d == IF toDue THEN NextDue ELSE TimeStep
       IN /\ d > 0
          /\ clock + d <= MaxClock
          /\ \A t \in timers : clock + d <= t.due
          /\ clock' = clock + d
    /\ emitted' = <<>>
    /\ UNCHANGED <<maxUsersEnv, userRole, households, members, invitations, now, req,
                   probe, accounts, chat_messages, chat_sent, notifying, sockets,
                   listeners, onlineUsers, timers, highlighted, activity_logs, edits>>

\* variant: the pending timers outlive the process that set them
RestartKeepTimers(i) ==
    /\ ~Refusing
    /\ \/ \E s \in Socks : sockets[s].state # "closed" /\ sockets[s].instance = i
       \/ \E t \in timers : t.instance = i
    /\ sockets' = [s \in Socks |-> IF sockets[s].instance = i THEN ClosedSocket
                                   ELSE sockets[s]]
    /\ timers' = {[t EXCEPT !.socket = IF @ \in Socks /\ sockets[@].instance = i
                                   THEN NoId ELSE @] :
                    t \in timers}
    /\ listeners' = {l \in listeners : l[1] # i}
    /\ edits' = {e \in edits : e.instance # i}
    /\ emitted' = <<>>
    /\ UNCHANGED <<maxUsersEnv, userRole, households, members, invitations, now, req,
                   probe, accounts, chat_messages, chat_sent, notifying, onlineUsers,
                   clock, highlighted, activity_logs>>

\* the process of instance i crashes or is restarted: its sockets, its
\* timers, its subscriber's listeners and the handlers it was running are
\* gone, and no handler of it runs
Restart(i) ==
    /\ ~Refusing
    /\ \/ \E s \in Socks : sockets[s].state # "closed" /\ sockets[s].instance = i
       \/ \E t \in timers : t.instance = i
    /\ sockets' = [s \in Socks |-> IF sockets[s].instance = i THEN ClosedSocket
                                   ELSE sockets[s]]
    /\ timers' = {t \in timers : t.instance # i}
    /\ listeners' = {l \in listeners : l[1] # i}
    /\ edits' = {e \in edits : e.instance # i}
    /\ emitted' = <<>>
    /\ UNCHANGED <<maxUsersEnv, userRole, households, members, invitations, now, req,
                   probe, accounts, chat_messages, chat_sent, notifying, onlineUsers,
                   clock, highlighted, activity_logs>>

\* ------------------------------------------------------------------ chat
\* chat:join joins and starts sendRecentMessages (one query per socket at a
\* time)
ChatJoin(s, c) ==
    /\ Open(s)
    /\ sockets[s].fetching = NoRoom
    /\ sockets' = [sockets EXCEPT ![s].rooms = @ \cup {ChatRoom(c)},
                                  ![s].fetching = ChatRoom(c)]
    /\ emitted' = <<>>
    /\ UNCHANGED <<maxUsersEnv, userRole, households, members, invitations, now, req,
                   probe, accounts, chat_messages, chat_sent, notifying, listeners,
                   onlineUsers, collab>>

\* ids in ascending order; ids are handed out in created_at order
RECURSIVE Ascending(_)
Ascending(ids) ==
    IF ids = {} THEN <<>>
    ELSE LET i == CHOOSE j \in ids : \A k \in ids : j <= k
         IN <<i>> \o Ascending(ids \ {i})

\* ids in descending order
RECURSIVE Descending(_)
Descending(ids) ==
    IF ids = {} THEN <<>>
    ELSE LET i == CHOOSE j \in ids : \A k \in ids : j >= k
         IN <<i>> \o Descending(ids \ {i})

\* orderBy(created_at, 'desc').limit(limit) without the reverse()
RecentMessagesNewestFirst(room, limit) ==
    LET all == Descending({m.id : m \in {x \in chat_messages : x.room = room}})
    IN IF Len(all) <= limit THEN all ELSE SubSeq(all, 1, limit)

\* orderBy(created_at, 'desc').limit(limit), then reverse()
RecentMessages(room, limit) ==
    LET all == Ascending({m.id : m \in {x \in chat_messages : x.room = room}})
    IN IF Len(all) <= limit THEN all
       ELSE SubSeq(all, Len(all) - limit + 1, Len(all))

\* sendRecentMessages after its query: chat:history to the socket
ChatHistory(s, ok) ==
    /\ ~Refusing
    /\ sockets[s].fetching # NoRoom
    /\ sockets' = [sockets EXCEPT ![s].fetching = NoRoom]
    /\ emitted' = IF ok /\ Connected(s)
                  THEN <<Emission("chat:history", {s}, NoId,
                                  RecentMessages(sockets[s].fetching, HistoryLimit), "")>>
                  ELSE <<>>
    /\ UNCHANGED <<maxUsersEnv, userRole, households, members, invitations, now, req,
                   probe, accounts, chat_messages, chat_sent, notifying, listeners,
                   onlineUsers, collab>>

\* chat:message validating the text as sent, without trim()
ChatSendUntrimmed(s, c, text) ==
    /\ Open(s)
    /\ IF text = NoText \/ Len(text) = 0
       THEN /\ emitted' = <<ErrorTo(s, "Message cannot be empty")>>
            /\ UNCHANGED <<sockets, chat_sent>>
       ELSE /\ sockets[s].sending = NoSend
            /\ chat_sent < NumMessages
            /\ sockets' = [sockets EXCEPT ![s].sending =
                             [room |-> ChatRoom(c), id |-> chat_sent + 1,
                              message |-> trim(text)]]
            /\ chat_sent' = chat_sent + 1
            /\ emitted' = <<>>
    /\ UNCHANGED <<maxUsersEnv, userRole, households, members, invitations, now, req,
                   probe, accounts, chat_messages, notifying, listeners, onlineUsers,
                   collab>>

\* sendRecentMessages(socket, roomType, roomId, limit) called on an open
\* socket, its query resolving at once
HistoryCall(s, c, limit) ==
    /\ Open(s)
    /\ emitted' = <<Emission("chat:history", {s}, NoId,
                             RecentMessages(ChatRoom(c), limit), "")>>
    /\ UNCHANGED <<maxUsersEnv, userRole, households, members, invitations, now, req,
                   probe, accounts, chat_messages, chat_sent, notifying, sockets,
                   listeners, onlineUsers, collab>>

\* chat:message up to its insert: validation, uuid and created_at (one
\* insert per socket at a time)
ChatSend(s, c, text) ==
    /\ Open(s)
    /\ IF text = NoText \/ Len(trim(text)) = 0
       THEN /\ emitted' = <<ErrorTo(s, "Message cannot be empty")>>
            /\ UNCHANGED <<sockets, chat_sent>>
       ELSE /\ sockets[s].sending = NoSend
            /\ chat_sent < NumMessages
            /\ sockets' = [sockets EXCEPT ![s].sending =
                             [room |-> ChatRoom(c), id |-> chat_sent + 1,
                              message |-> trim(text)]]
            /\ chat_sent' = chat_sent + 1
            /\ emitted' = <<>>
    /\ UNCHANGED <<maxUsersEnv, userRole, households, members, invitations, now, req,
                   probe, accounts, chat_messages, notifying, listeners, onlineUsers,
                   collab>>

\* chat:message broadcasting before the insert has resolved
ChatInsertBroadcastFirst(s, ok) ==
    /\ ~Refusing
    /\ sockets[s].sending # NoSend
    /\ LET m == sockets[s].sending
       IN IF ok
          THEN /\ chat_messages' = chat_messages \cup
                       {[id |-> m.id, room |-> m.room, user_id |-> sockets[s].user,
                         message |-> m.message]}
               /\ emitted' = <<Emission("chat:message", InRoom(m.room),
                                        sockets[s].user, <<m.id>>, "")>>
               /\ notifying' = notifying \cup {m.id}
          ELSE /\ emitted' = <<Emission("chat:message", InRoom(m.room),
                                        sockets[s].user, <<m.id>>, ""),
                               ErrorTo(s, "Failed to send message")>>
               /\ UNCHANGED <<chat_messages, notifying>>
    /\ sockets' = [sockets EXCEPT ![s].sending = NoSend]
    /\ UNCHANGED <<maxUsersEnv, userRole, households, members, invitations, now, req,
                   probe, accounts, chat_sent, listeners, onlineUsers, collab>>

\* the insert has resolved: broadcast to the room and start
\* sendChatNotifications, or it has thrown: error to the sender
\* the insert's broadcast made with socket.to(roomName)
ChatInsertToOthers(s, ok) ==
    /\ ~Refusing
    /\ sockets[s].sending # NoSend
    /\ LET m == sockets[s].sending
       IN IF ok
          THEN /\ chat_messages' = chat_messages \cup
                       {[id |-> m.id, room |-> m.room, user_id |-> sockets[s].user,
                         message |-> m.message]}
               /\ emitted' = <<Emission("chat:message", InRoom(m.room) \ {s},
                                        sockets[s].user, <<m.id>>, "")>>
               /\ notifying' = notifying \cup {m.id}
          ELSE /\ emitted' = <<ErrorTo(s, "Failed to send message")>>
               /\ UNCHANGED <<chat_messages, notifying>>
    /\ sockets' = [sockets EXCEPT ![s].sending = NoSend]
    /\ UNCHANGED <<maxUsersEnv, userRole, households, members, invitations, now, req,
                   probe, accounts, chat_sent, listeners, onlineUsers, collab>>

ChatInsert(s, ok) ==
    /\ ~Refusing
    /\ sockets[s].sending # NoSend
    /\ LET m == sockets[s].sending
       IN IF ok
          THEN /\ chat_messages' = chat_messages \cup
                       {[id |-> m.id, room |-> m.room, user_id |-> sockets[s].user,
                         message |-> m.message]}
               /\ emitted' = <<Emission("chat:message", InRoom(m.room),
                                        sockets[s].user, <<m.id>>, "")>>
               /\ notifying' = notifying \cup {m.id}
          ELSE /\ emitted' = <<ErrorTo(s, "Failed to send message")>>
               /\ UNCHANGED <<chat_messages, notifying>>
    /\ sockets' = [sockets EXCEPT ![s].sending = NoSend]
    /\ UNCHANGED <<maxUsersEnv, userRole, households, members, invitations, now, req,
                   probe, accounts, chat_sent, listeners, onlineUsers, collab>>

\* sendChatNotifications for message id: the active members of household
\* roomId other than the author, those with push notifications enabled
PushRecipients(row) ==
    {u \in Users : /\ u # row.user_id
                   /\ \E m \in MemberRows(row.room[2], u) : m.is_active
                   /\ accounts[u].push_notifications_enabled}

\* the run of sendChatNotifications for message id, none of its awaits giving
\* way to another handler: the members query, then for each member the
\* preference lookup and sendPushNotification(user_id, {.., messageId}).  A
\* query that throws ends the run in its catch, which logs
ChatNotify(id, ok) ==
    /\ ~Refusing
    /\ id \in notifying
    /\ notifying' = notifying \ {id}
    /\ LET row == CHOOSE m \in chat_messages : m.id = id
           to == Ascending(PushRecipients(row))
       IN emitted' = IF ok
                     THEN [k \in 1..Len(to) |-> Emission("push", {}, to[k], <<id>>, "")]
                     ELSE <<>>
    /\ UNCHANGED <<maxUsersEnv, userRole, households, members, invitations, now, req,
                   probe, accounts, chat_messages, chat_sent, sockets, listeners,
                   onlineUsers, collab>>

\* chat:typing emitting with io.to(roomName)
ChatTypingToRoom(s, c, isTyping) ==
    /\ Open(s)
    /\ emitted' = <<Emission("chat:user-typing", InRoom(ChatRoom(c)),
                             sockets[s].user, <<>>,
                             IF isTyping THEN "true" ELSE "false")>>
    /\ UNCHANGED <<maxUsersEnv, userRole, households, members, invitations, now, req,
                   probe, accounts, chat_messages, chat_sent, notifying, sockets,
                   listeners, onlineUsers, collab>>


\* chat:typing: socket.to(roomName).emit('chat:user-typing', {userId, isTyping})
ChatTyping(s, c, isTyping) ==
    /\ Open(s)
    /\ emitted' = <<Emission("chat:user-typing", InRoom(ChatRoom(c)) \ {s},
                             sockets[s].user, <<>>,
                             IF isTyping THEN "true" ELSE "false")>>
    /\ UNCHANGED <<maxUsersEnv, userRole, households, members, invitations, now, req,
                   probe, accounts, chat_messages, chat_sent, notifying, sockets,
                   listeners, onlineUsers, collab>>

\* ------------------------------------------------------------ disconnect
\* the client closes the connection
ClientClose(s) ==
    /\ Open(s)
    /\ sockets' = [sockets EXCEPT ![s].state = "closing"]
    /\ emitted' = <<>>
    /\ UNCHANGED <<maxUsersEnv, userRole, households, members, invitations, now, req,
                   probe, accounts, chat_messages, chat_sent, notifying, listeners,
                   onlineUsers, collab>>

\* the client stops answering the server's pings
ClientSilent(s) ==
    /\ Open(s)
    /\ sockets' = [sockets EXCEPT ![s].state = "silent"]
    /\ emitted' = <<>>
    /\ UNCHANGED <<maxUsersEnv, userRole, households, members, invitations, now, req,
                   probe, accounts, chat_messages, chat_sent, notifying, listeners,
                   onlineUsers, collab>>

\* socket ids are never used again: what a pending callback holds of a
\* disconnected socket matches no socket from then on
Detached(pending, s) ==
    {[t EXCEPT !.socket = IF @ = s THEN NoId ELSE @] : t \in pending}

\* a disconnect handler that broadcasts user:offline for the user's last
\* session only
DisconnectLastSession(s) ==
    /\ ~Refusing
    /\ sockets[s].state \in {"closing", "silent"}
    /\ sockets' = [sockets EXCEPT ![s] =
                     [ClosedSocket EXCEPT !.sending = sockets[s].sending,
                                          !.fetching = sockets[s].fetching]]
    /\ LET last == \A q \in Socks \ {s} :
                      ~(Connected(q) /\ sockets[q].user = sockets[s].user)
       IN /\ emitted' = IF last
                        THEN <<Emission("user:offline",
                                        {q \in Socks : Connected(q)} \ {s},
                                        sockets[s].user, <<>>, "")>>
                        ELSE <<>>
          /\ onlineUsers' = IF last THEN onlineUsers \ {sockets[s].user}
                            ELSE onlineUsers
    /\ listeners' = {l \in listeners :
                        ~(l[1] = sockets[s].instance /\ l[2] = sockets[s].user)}
    /\ UNCHANGED <<maxUsersEnv, userRole, households, members, invitations, now, req,
                   probe, accounts, chat_messages, chat_sent, notifying, clock,
                   highlighted, activity_logs>>
    /\ timers' = Detached(timers, s)
    /\ edits' = Detached(edits, s)

\* a disconnect handler that leaves the user's channel subscribed
DisconnectKeepSubscription(s) ==
    /\ ~Refusing
    /\ sockets[s].state \in {"closing", "silent"}
    /\ sockets' = [sockets EXCEPT ![s] =
                     [ClosedSocket EXCEPT !.sending = sockets[s].sending,
                                          !.fetching = sockets[s].fetching]]
    /\ emitted' = <<Emission("user:offline", {q \in Socks : Connected(q)} \ {s},
                             sockets[s].user, <<>>, "")>>
    /\ onlineUsers' = onlineUsers \ {sockets[s].user}
    /\ UNCHANGED <<maxUsersEnv, userRole, households, members, invitations, now, req,
                   probe, accounts, chat_messages, chat_sent, notifying, listeners,
                   clock, highlighted, activity_logs>>
    /\ timers' = Detached(timers, s)
    /\ edits' = Detached(edits, s)

\* the transport has closed or pingTimeout has run out: socket.io takes the
\* socket out of its rooms and emits 'disconnect'; the handler broadcasts
\* user:offline and unsubscribes the user's channel
Disconnect(s) ==
    /\ ~Refusing
    /\ sockets[s].state \in {"closing", "silent"}
    /\ sockets' = [sockets EXCEPT ![s] =
                     [ClosedSocket EXCEPT !.sending = sockets[s].sending,
                                          !.fetching = sockets[s].fetching]]
    /\ emitted' = <<Emission("user:offline", {q \in Socks : Connected(q)} \ {s},
                             sockets[s].user, <<>>, "")>>
    /\ listeners' = {l \in listeners :
                        ~(l[1] = sockets[s].instance /\ l[2] = sockets[s].user)}
    /\ onlineUsers' = onlineUsers \ {sockets[s].user}
    /\ UNCHANGED <<maxUsersEnv, userRole, households, members, invitations, now, req,
                   probe, accounts, chat_messages, chat_sent, notifying, clock,
                   highlighted, activity_logs>>
    /\ timers' = Detached(timers, s)
    /\ edits' = Detached(edits, s)

\* variant: the message is kept for the sessions of the user that hold no
\* subscription when it is published
PublishToSessions(u) ==
    /\ ~Refusing
    /\ \E l \in listeners : l[2] = u
    /\ LET to == Ascending({q \in Socks : Connected(q) /\ sockets[q].user = u})
       IN emitted' = [k \in 1..Len(to) |->
                        Emission("notification", {to[k]}, u, <<>>, "")]
    /\ UNCHANGED <<maxUsersEnv, userRole, households, members, invitations, now, req,
                   probe, accounts, chat_messages, chat_sent, notifying, sockets,
                   listeners, onlineUsers, collab>>

\* a message published on the channel user:u reaches the subscriber's
\* listeners, each of which emits 'notification' on its socket
Publish(u) ==
    /\ ~Refusing
    /\ \E l \in listeners : l[2] = u
    /\ LET to == Ascending({l[3] : l \in {k \in listeners : k[2] = u}})
       IN emitted' = [k \in 1..Len(to) |->
                        Emission("notification",
                                 {to[k]} \cap {q \in Socks : Connected(q)},
                                 u, <<>>, "")]
    /\ UNCHANGED <<maxUsersEnv, userRole, households, members, invitations, now, req,
                   probe, accounts, chat_messages, chat_sent, notifying, sockets,
                   listeners, onlineUsers, collab>>

\* ------------------------------------------------------------------ runs
NoProbe == [c |-> -1, result |-> NoCap]

\* users row: active, never locked, push notifications enabled
ActiveAccount == [is_active |-> TRUE, locked_until |-> NoLock,
                  push_notifications_enabled |-> TRUE]

\* the socket server has just started
GatewayIdle ==
    /\ chat_messages = {}
    /\ chat_sent = 0
    /\ notifying = {}
    /\ sockets = [s \in Socks |-> ClosedSocket]
    /\ listeners = {}
    /\ emitted = <<>>
    /\ onlineUsers = {}
    /\ timers = {}
    /\ clock = 0
    /\ highlighted = 0
    /\ activity_logs = {}
    /\ edits = {}

\* the store after setup: users 1..n are registered, each owns a household
\* it administers; user 1 carries the users.role 'admin'
Seeded(n) ==
    /\ userRole = [u \in Users |-> IF u = 1 THEN "admin"
                                   ELSE IF u <= n THEN "user" ELSE "none"]
    /\ households = 1..n
    /\ members = {Member(u, u, "admin", TRUE) : u \in 1..n}
    /\ invitations = [i \in InvIds |-> NoInvitation]
    /\ now = 0
    /\ req = [r \in Reqs |-> IdleReq]
    /\ probe = NoProbe
    /\ accounts = [u \in Users |-> ActiveAccount]
    /\ GatewayIdle

\* the steps of the household routes
HouseholdRequest(r) ==
    \/ \E u \in Users, h \in Households, ok \in BOOLEAN : InviteMembership(r, u, h, ok)
    \/ \E b \in Households \cup {NoId}, ok \in BOOLEAN : InviteCap(r, b, ok)
    \/ \E e \in Emails \cup {NoEmail}, ok \in BOOLEAN : InviteFindUser(r, e, ok)
    \/ \E ok \in BOOLEAN : InviteFindMember(r, ok)
    \/ \E role \in InviteRoles, ok \in BOOLEAN : InviteReactivate(r, role, ok)
    \/ \E role \in InviteRoles, s \in BOOLEAN, ok \in BOOLEAN, m \in BOOLEAN :
           InviteInsert(r, role, s, ok, m)
    \/ \E u \in Users, i \in InvIds, ok \in BOOLEAN : AcceptLookup(r, u, i, ok)
    \/ \E ok \in BOOLEAN : AcceptCheck(r, ok)
    \/ \E ok \in BOOLEAN : AcceptInsert(r, ok)
    \/ \E ok \in BOOLEAN : AcceptUpdate(r, ok)
    \/ \E u \in Users, h \in Households, t \in Users, ok \in BOOLEAN :
           RemoveMembership(r, u, h, t, ok)
    \/ \E ok \in BOOLEAN : RemoveLookup(r, ok)
    \/ \E ok \in BOOLEAN : RemoveUpdate(r, ok)

\* the steps of the register route
RegisterRequest(r) ==
    \/ \E b \in Households \cup {NoId}, ok \in BOOLEAN : RegisterCap(r, b, ok)
    \/ \E e \in Emails, f \in BOOLEAN, ok \in BOOLEAN : RegisterLookup(r, e, f, ok)
    \/ \E ok \in BOOLEAN : RegisterInsertUser(r, ok)
    \/ \E ok \in BOOLEAN : RegisterInsertHousehold(r, ok)
    \/ \E ok \in BOOLEAN : RegisterInsertMember(r, ok)

\* Spec: the household routes, NumReqs requests interleaving at their awaits,
\* on a store where every user is registered
Init == maxUsersEnv = EnvNum(EnvMaxUsers) /\ Seeded(NumUsers)

Next ==
    \/ \E r \in Reqs : Finish(r)
    \/ \E r \in Reqs : HouseholdRequest(r)

Spec == Init /\ [][Next]_vars

\* SpecSeq: every route, one request at a time, while users register and
\* time passes
InitSeq == maxUsersEnv = EnvNum(EnvMaxUsers) /\ Seeded(NumSeedUsers)

NextSeq ==
    \/ \E r \in {1} : Finish(r)
    \/ \E r \in {1} : HouseholdRequest(r)
    \/ \E r \in {1} : RegisterRequest(r)
    \/ Tick

SpecSeq == InitSeq /\ [][NextSeq]_vars

\* SpecCap: canAddUserToHousehold called on a count, under every MAX_USERS
EnvValues == {EnvUnset, EnvText} \cup {EnvNum(n) : n \in 0..MaxEnvNum}

CallCanAdd(c) ==
    /\ probe = NoProbe
    /\ probe' = [c |-> c, result |-> canAddUserToHousehold(c, maxUsersEnv)]
    /\ UNCHANGED <<maxUsersEnv, userRole, households, members, invitations, now, req, gateway>>

InitCap == maxUsersEnv \in EnvValues /\ Seeded(NumUsers)

NextCap == \E c \in 0..MaxCount : CallCanAdd(c)

SpecCap == InitCap /\ [][NextCap]_vars

\* the store of the gateway runs: every user owns a household; user 2 is
\* also a member of household 1 and a removed member of the last household
GatewayStore ==
    /\ maxUsersEnv = EnvNum(EnvMaxUsers)
    /\ userRole = [u \in Users |-> IF u = 1 THEN "admin" ELSE "user"]
    /\ households = Users
    /\ members = {Member(u, u, "admin", TRUE) : u \in Users} \cup
                 {Member(1, 2, "member", TRUE), Member(NumUsers, 2, "member", FALSE)}
    /\ invitations = [i \in InvIds |-> NoInvitation]
    /\ now = 0
    /\ req = [r \in Reqs |-> IdleReq]
    /\ probe = NoProbe

\* an account is active, deactivated, locked or was locked
AccountStates ==
    {ActiveAccount,
     [ActiveAccount EXCEPT !.is_active = FALSE],
     [ActiveAccount EXCEPT !.locked_until = LockDays],
     [ActiveAccount EXCEPT !.locked_until = 0,
                           !.push_notifications_enabled = FALSE]}

\* SpecConn: connections, presence and the bus subscriptions, on NumInstances
\* instances, while the admin of household 1 removes user 2.  The last
\* user's account is in any of the account states.  Instances are alike, so
\* the first socket slot is served by the first instance.
InitConn ==
    /\ GatewayStore
    /\ accounts \in {[[u \in Users |-> ActiveAccount] EXCEPT ![NumUsers] = a] :
                        a \in AccountStates}
    /\ GatewayIdle

NextConn ==
    \/ \E s \in Socks : \E i \in {j \in Instances : j <= s}, t \in Tokens, ok \in BOOLEAN :
           AuthVerify(s, i, t, ok)
    \/ \E s \in Socks, ok \in BOOLEAN : AuthHouseholds(s, ok)
    \/ \E s \in Socks : Refuse(s)
    \/ \E s \in Socks : ClientClose(s)
    \/ \E s \in Socks : ClientSilent(s)
    \/ \E s \in Socks : Disconnect(s)
    \/ \E u \in Users : Publish(u)
    \/ \E r \in {1} : RemoveMembership(r, 1, 1, 2, TRUE)
    \/ \E r \in {1} : RemoveLookup(r, TRUE)
    \/ \E r \in {1} : RemoveUpdate(r, TRUE)
    \/ \E r \in {1} : Finish(r)

SpecConn == InitConn /\ [][NextConn]_vars

\* SpecConnFair: SpecConn where the server gets to run the disconnect of a
\* socket whose transport has closed or whose pingTimeout has run out: the
\* close event and the timer are callbacks queued on the event loop, which
\* runs every queued callback; a refusal under way (next(err)) completes
SpecConnFair ==
    /\ SpecConn
    /\ \A s \in Socks : WF_vars(Refuse(s)) /\ SF_vars(Disconnect(s))

\* the gateway runs whose accounts are all active
InitGw ==
    /\ GatewayStore
    /\ accounts = [u \in Users |-> ActiveAccount]
    /\ GatewayIdle

\* SpecRooms: sessions of one instance that stay connected join and leave
\* collaboration rooms and join chat rooms
NextRooms ==
    \/ \E s \in Socks, t \in Tokens, ok \in BOOLEAN : AuthVerify(s, 1, t, ok)
    \/ \E s \in Socks, ok \in BOOLEAN : AuthHouseholds(s, ok)
    \/ \E s \in Socks : Refuse(s)
    \/ \E s \in Socks, named \in BOOLEAN, d \in RoomIds, h \in Households \cup {NoId} :
           CollabJoin(s, named, d, h)
    \/ \E s \in Socks, d \in RoomIds : CollabLeave(s, d)
    \/ \E s \in Socks, c \in RoomIds : ChatJoin(s, c)
    \/ \E s \in Socks, ok \in BOOLEAN : ChatHistory(s, ok)

SpecRooms == InitGw /\ [][NextRooms]_vars

\* SpecChat: users 1 and 2 connect; the first socket sends chat messages
\* and may disconnect, both sockets join chat rooms
NextChat ==
    \/ \E s \in Socks, t \in {NoToken, GoodToken(1), GoodToken(2)}, ok \in BOOLEAN :
           AuthVerify(s, 1, t, ok)
    \/ \E s \in Socks, ok \in BOOLEAN : AuthHouseholds(s, ok)
    \/ \E s \in Socks : Refuse(s)
    \/ \E s \in {1} : ClientClose(s)
    \/ \E s \in {1} : Disconnect(s)
    \/ \E s \in Socks, c \in RoomIds : ChatJoin(s, c)
    \/ \E s \in Socks, ok \in BOOLEAN : ChatHistory(s, ok)
    \/ \E s \in {1}, c \in RoomIds, t \in Texts \cup {NoText} : ChatSend(s, c, t)
    \/ \E s \in {1}, ok \in BOOLEAN : ChatInsert(s, ok)

SpecChat == InitGw /\ [][NextChat]_vars

\* SpecHistory: user 1 connects and reads the history of chat rooms.  The
\* store holds any of the rows with ids 1..NumStored (handed out in
\* created_at order), each in one of the rooms and sent by user 1 or 2.
StoredRows(roomOf) ==
    {[id |-> i, room |-> ChatRoom(roomOf[i]), user_id |-> 1 + (i % 2), message |-> <<"a">>] :
        i \in {j \in 1..NumStored : roomOf[j] # NoId}}

Limits == 1..MaxLimit \cup {HistoryLimit}

InitHistory ==
    /\ GatewayStore
    /\ accounts = [u \in Users |-> ActiveAccount]
    /\ chat_messages \in {StoredRows(f) : f \in [1..NumStored -> RoomIds \cup {NoId}]}
    /\ chat_sent = NumStored
    /\ notifying = {}
    /\ sockets = [s \in Socks |-> ClosedSocket]
    /\ listeners = {}
    /\ emitted = <<>>
    /\ onlineUsers = {}
    /\ timers = {}
    /\ clock = 0
    /\ highlighted = 0
    /\ activity_logs = {}
    /\ edits = {}

NextHistory ==
    \/ \E s \in {1}, ok \in BOOLEAN : AuthVerify(s, 1, GoodToken(1), ok)
    \/ \E s \in {1}, ok \in BOOLEAN : AuthHouseholds(s, ok)
    \/ \E s \in {1} : Refuse(s)
    \/ \E s \in {1}, c \in RoomIds : ChatJoin(s, c)
    \/ \E s \in {1}, ok \in BOOLEAN : ChatHistory(s, ok)
    \/ \E s \in {1}, c \in RoomIds, limit \in Limits : HistoryCall(s, c, limit)

SpecHistory == InitHistory /\ [][NextHistory]_vars

\* SpecNotify: users 1 and 2, both members of household 1, connect; the
\* first socket sends to the chat rooms and sendChatNotifications runs for
\* what it sent; the second socket may disconnect; user 2 has push
\* notifications enabled or not
InitNotify ==
    /\ GatewayStore
    /\ accounts \in {[[u \in Users |-> ActiveAccount] EXCEPT ![2] = a] :
                        a \in {ActiveAccount,
                               [ActiveAccount EXCEPT !.push_notifications_enabled = FALSE]}}
    /\ GatewayIdle

NextNotify ==
    \/ \E s \in Socks, ok \in BOOLEAN : AuthVerify(s, 1, GoodToken(s), ok)
    \/ \E s \in Socks, ok \in BOOLEAN : AuthHouseholds(s, ok)
    \/ \E s \in Socks : Refuse(s)
    \/ \E s \in {2} : ClientClose(s)
    \/ \E s \in {2} : Disconnect(s)
    \/ \E s \in Socks, c \in RoomIds : ChatJoin(s, c)
    \/ \E s \in Socks, ok \in BOOLEAN : ChatHistory(s, ok)
    \/ \E s \in {1}, c \in RoomIds : ChatSend(s, c, <<"a">>)
    \/ \E s \in {1}, ok \in BOOLEAN : ChatInsert(s, ok)
    \/ \E id \in MsgIds, ok \in BOOLEAN : ChatNotify(id, ok)

SpecNotify == InitNotify /\ [][NextNotify]_vars

\* SpecTyping: sessions on NumInstances instances join chat rooms, signal
\* typing and disconnect
NextTyping ==
    \/ \E s \in Socks : \E i \in {j \in Instances : j <= s}, t \in Tokens, ok \in BOOLEAN :
           AuthVerify(s, i, t, ok)
    \/ \E s \in Socks, ok \in BOOLEAN : AuthHouseholds(s, ok)
    \/ \E s \in Socks : Refuse(s)
    \/ \E s \in Socks, c \in RoomIds : ChatJoin(s, c)
    \/ \E s \in Socks, ok \in BOOLEAN : ChatHistory(s, ok)
    \/ \E s \in Socks, c \in RoomIds, b \in BOOLEAN : ChatTyping(s, c, b)
    \/ \E s \in Socks : ClientClose(s)
    \/ \E s \in Socks : ClientSilent(s)
    \/ \E s \in Socks : Disconnect(s)

SpecTyping == InitGw /\ [][NextTyping]_vars

\* SpecHighlight: sessions on NumInstances instances join collaboration
\* rooms and highlight items while time passes, sessions disconnect and
\* instances restart
NextHighlight ==
    \/ \E s \in Socks : \E i \in {j \in Instances : j <= s}, ok \in BOOLEAN :
           AuthVerify(s, i, GoodToken(s), ok)
    \/ \E s \in Socks, ok \in BOOLEAN : AuthHouseholds(s, ok)
    \/ \E s \in Socks : Refuse(s)
    \/ \E s \in Socks, d \in {1} : CollabJoin(s, TRUE, d, NoId)
    \/ \E s \in Socks, d \in {1} : CollabLeave(s, d)
    \/ \E s \in Socks, d \in {1}, item \in ItemIds : CollabHighlight(s, d, item)
    \/ \E id \in 1..MaxHighlights : HighlightTimer(id)
    \/ \E toDue \in BOOLEAN : Elapse(toDue)
    \/ \E s \in Socks : ClientClose(s)
    \/ \E s \in Socks : Disconnect(s)
    \/ \E i \in Instances : Restart(i)

SpecHighlight == InitGw /\ [][NextHighlight]_vars

\* Node runs a timer's callback once its delay has elapsed, time passes, and a
\* refused connection is dropped: the process of an instance may still stop
\* at any moment (Restart)
SpecHighlightFair ==
    /\ SpecHighlight
    /\ \A s \in Socks : WF_vars(Refuse(s))
    /\ \A id \in 1..MaxHighlights : SF_vars(HighlightTimer(id))
    /\ SF_vars(Elapse(TRUE))

\* the collaboration rooms: sessions of two users on two instances join and
\* leave the rooms of two documents and send edits
NextCollab ==
    \/ \E s \in Socks : \E i \in {j \in Instances : j <= s}, u \in 1..NumSocks,
                           ok \in BOOLEAN :
           AuthVerify(s, i, GoodToken(u), ok)
    \/ \E s \in Socks, ok \in BOOLEAN : AuthHouseholds(s, ok)
    \/ \E s \in Socks : Refuse(s)
    \/ \E s \in Socks, d \in RoomIds : CollabJoin(s, TRUE, d, NoId)
    \/ \E s \in Socks, d \in RoomIds : CollabLeave(s, d)
    \/ \E s \in Socks, d \in {1}, operation \in Operations : CollabEdit(s, d, operation)
    \/ \E id \in 1..MaxEdits, ok \in BOOLEAN : CollabEditInsert(id, ok)
    \/ \E s \in Socks : ClientClose(s)
    \/ \E s \in Socks : Disconnect(s)

SpecCollab == InitGw /\ [][NextCollab]_vars

\* the rows of one household that getHouseholdUserStats selects, in the order
\* of joined_at: row k is the k-th member, active or not
RowLists ==
    UNION {{[k \in 1..n |-> [id |-> k, is_active |-> f[k]]] : f \in [1..n -> BOOLEAN]} :
             n \in 0..MaxRows}

\* variant: the inactive rows take slots as well
getHouseholdUserStatsAllRows(stats, env) ==
    LET activeUsers == SelectSeq(stats, LAMBDA user : user.is_active)
        inactiveUsers == SelectSeq(stats, LAMBDA user : ~user.is_active)
        maxUsers == MaxUsersOf(env)
    IN [totalUsers |-> Len(stats),
        activeUsers |-> Len(activeUsers),
        inactiveUsers |-> Len(inactiveUsers),
        maxUsers |-> maxUsers,
        remainingSlots |-> maxUsers - Len(stats),
        utilization |-> <<Len(activeUsers) * 100, maxUsers>>,
        users |-> [active |-> activeUsers, inactive |-> inactiveUsers],
        warnings |-> [nearLimit |-> Len(stats) >= maxUsers - 1,
                      atLimit |-> Len(stats) >= maxUsers,
                      overLimit |-> Len(stats) > maxUsers]]

\* getHouseholdUserStats on the selected rows; utilization is the pair
\* <<numerator, denominator>> of (activeUsers.length / maxUsers) * 100
getHouseholdUserStats(stats, env) ==
    LET activeUsers == SelectSeq(stats, LAMBDA user : user.is_active)
        inactiveUsers == SelectSeq(stats, LAMBDA user : ~user.is_active)
        maxUsers == MaxUsersOf(env)
    IN [totalUsers |-> Len(stats),
        activeUsers |-> Len(activeUsers),
        inactiveUsers |-> Len(inactiveUsers),
        maxUsers |-> maxUsers,
        remainingSlots |-> maxUsers - Len(activeUsers),
        utilization |-> <<Len(activeUsers) * 100, maxUsers>>,
        users |-> [active |-> activeUsers, inactive |-> inactiveUsers],
        warnings |-> [nearLimit |-> Len(activeUsers) >= maxUsers - 1,
                      atLimit |-> Len(activeUsers) >= maxUsers,
                      overLimit |-> Len(activeUsers) > maxUsers]]

CallStats(stats) ==
    /\ probe = NoProbe
    /\ probe' = [rows |-> stats, stats |-> getHouseholdUserStats(stats, maxUsersEnv)]
    /\ UNCHANGED <<maxUsersEnv, userRole, households, members, invitations, now, req, gateway>>

NextStats == \E stats \in RowLists : CallStats(stats)

SpecStats == InitCap /\ [][NextStats]_vars

\* the remove route on a household with two admins: users 1 and 2 hold the
\* role admin and are active admins of household 1, user 3 is a member of it,
\* and every user administers the household of their own
InitRemove ==
    /\ maxUsersEnv = EnvNum(EnvMaxUsers)
    /\ userRole = [u \in Users |-> IF u <= 2 THEN "admin" ELSE "user"]
    /\ households = Users
    /\ members = {Member(u, u, "admin", TRUE) : u \in Users \ {1}}
                 \cup {Member(1, 1, "admin", TRUE), Member(1, 2, "admin", TRUE),
                       Member(1, 3, "member", TRUE)}
    /\ invitations = [i \in InvIds |-> NoInvitation]
    /\ now = 0
    /\ req = [r \in Reqs |-> IdleReq]
    /\ probe = NoProbe
    /\ accounts = [u \in Users |-> ActiveAccount]
    /\ GatewayIdle

NextRemove ==
    \/ \E r \in Reqs : Finish(r)
    \/ \E r \in Reqs, u \in Users, h \in {1, 2}, t \in Users, ok \in BOOLEAN :
           RemoveMembership(r, u, h, t, ok)
    \/ \E r \in Reqs, ok \in BOOLEAN : RemoveLookup(r, ok)
    \/ \E r \in Reqs, ok \in BOOLEAN : RemoveUpdate(r, ok)

SpecRemove == InitRemove /\ [][NextRemove]_vars

\* ------------------------------------------------------------- properties
\* maxUsers as every capacity check computes it
MaxUsers == MaxUsersOf(maxUsersEnv)

\* C1: in every committed state of the store, no household has more active
\* household_members rows than maxUsers.
C1_ActiveCountWithinCap == \A h \in Households : ActiveCount(h) <= MaxUsers

\* C2: of two concurrent accept requests for a household with maxUsers - 1
\* active members exactly one succeeds: they never both get their membership
\* row in, and the active count ends at maxUsers.
C2_OneOfTwoAcceptsWins ==
    \A r1, r2 \in {r \in Reqs : req[r].kind = "accept"} :
        (/\ r1 # r2
         /\ req[r1].capHid = req[r2].capHid
         /\ req[r1].cap.currentUsers = MaxUsers - 1
         /\ req[r2].cap.currentUsers = MaxUsers - 1
         /\ req[r1].pc = "acc_update")
        => /\ req[r2].pc # "acc_update"
           /\ ActiveCount(req[r1].capHid) <= MaxUsers

\* C3: the capacity checks never have more allowed=true answers outstanding
\* for a household than it has free places: the requests that were told they
\* may add a member and have not written it yet number at most maxUsers minus
\* the committed active count.
C3_AllowedFitsFreePlaces ==
    \A h \in Households :
        LET admitted == {r \in Reqs : /\ req[r].pc \in {"acc_insert", "inv_react"}
                                      /\ req[r].capHid = h}
        IN Cardinality(admitted) <= MaxUsers - ActiveCount(h)

\* C4: an accept whose capacity check runs while the household has maxUsers
\* active members ends there: it is answered with an error, a 403 comes with
\* canAdd = false and currentUsers = maxUsers = the limit, and no row of
\* household_members or household_invitations changes.
C4_AcceptAtLimitRejected ==
    [][\A r \in Reqs :
          (/\ req[r].pc = "acc_cap"
           /\ req'[r] # req[r]
           /\ ActiveCount(req[r].inv.household_id) = MaxUsers)
          => /\ req'[r].pc = "done"
             /\ req'[r].res.status \in {403, 500}
             /\ req'[r].res.status = 403 =>
                    /\ ~req'[r].cap.canAdd
                    /\ req'[r].cap.currentUsers = MaxUsers
                    /\ req'[r].cap.maxUsers = MaxUsers
                    /\ req'[r].res.error = "User limit reached"
             /\ members' = members
             /\ invitations' = invitations]_vars

\* C4 happens: an accept was answered 403 for a household that is full
C4_Witness ==
    \E r \in Reqs :
        /\ req[r].kind = "accept"
        /\ req[r].pc = "done"
        /\ req[r].res.status = 403
        /\ req[r].cap.currentUsers = MaxUsers
        /\ ActiveCount(req[r].capHid) = MaxUsers
        /\ MemberRows(req[r].capHid, invitations[req[r].target].email[1]) = {}

\* C5: every answer that denies an admission because the limit is reached,
\* from checkUserCap or from the accept route, is a 403 whose body carries
\* error "User limit reached", the current active count and maxUsers.
C5_DenialCarriesCounts ==
    \A r \in Reqs :
        (/\ req[r].pc = "done"
         /\ "error" \in DOMAIN req[r].res
         /\ req[r].res.error = "User limit reached")
        => /\ req[r].res.status = 403
           /\ {"currentUsers", "maxUsers"} \subseteq DOMAIN req[r].res
           /\ req[r].res.currentUsers = ActiveCount(req[r].capHid)
           /\ req[r].res.maxUsers = MaxUsers

\* C6: a checkUserCap run has exactly one outcome.  It hands on (next()) with
\* req.userCount = the active count and req.maxUsers = the limit only when a
\* household id is there and the count is below the limit; without a
\* household id it answers 400, with count >= limit 403 (or 500 when the read
\* fails), and then the request is over.
C6_CheckUserCapOutcome ==
    [][\A r \in Reqs :
          (\/ req[r].pc = "idle" /\ req'[r].kind = "register"
           \/ req[r].pc = "inv_cap" /\ req'[r] # req[r])
          => LET q == req'[r]
                 c == ActiveCount(q.capHid)
             IN \/ /\ q.pc \in {"reg_lookup", "inv_user"}
                   /\ q.capHid # NoId
                   /\ c < MaxUsers
                   /\ q.userCount = c
                   /\ q.maxUsers = MaxUsers
                \/ /\ q.pc = "done"
                   /\ q.res.status = 400
                   /\ q.capHid = NoId
                \/ /\ q.pc = "done"
                   /\ q.res.status = 403
                   /\ q.capHid # NoId
                   /\ c >= MaxUsers
                   /\ q.res.currentUsers = c
                   /\ q.res.maxUsers = MaxUsers
                \/ /\ q.pc = "done"
                   /\ q.res.status = 500
                   /\ q.capHid # NoId]_vars

\* C6 happens: checkUserCap turned a request away from a full household
C6_Witness ==
    \E r \in Reqs :
        /\ req[r].kind \in {"register", "invite"}
        /\ req[r].pc = "done"
        /\ req[r].res.status = 403
        /\ "currentUsers" \in DOMAIN req[r].res
        /\ req[r].res.currentUsers = MaxUsers

\* C7 as stated: maxUsers is MAX_USERS when it is set and 5 when it is unset,
\* and for a count c the function returns canAdd = (c < maxUsers),
\* currentUsers = c, maxUsers and remainingSlots = maxUsers - c.
C7_CanAddAsStated ==
    (probe # NoProbe /\ maxUsersEnv.kind # "text")
    => LET m == IF maxUsersEnv.kind = "unset" THEN 5 ELSE maxUsersEnv.val
       IN probe.result = [canAdd |-> probe.c < m, currentUsers |-> probe.c,
                          maxUsers |-> m, remainingSlots |-> m - probe.c]

\* C7 amended: maxUsers is MAX_USERS when that is a number other than 0, and 5
\* when it is unset, not a number or 0; for a count c the function returns
\* canAdd = (c < maxUsers), currentUsers = c, maxUsers and
\* remainingSlots = maxUsers - c, which is 0 when c = maxUsers.
C7_CanAddResult ==
    probe # NoProbe
    => LET m == IF maxUsersEnv.kind = "num" /\ maxUsersEnv.val # 0
                 THEN maxUsersEnv.val ELSE 5
       IN /\ probe.result = [canAdd |-> probe.c < m, currentUsers |-> probe.c,
                             maxUsers |-> m, remainingSlots |-> m - probe.c]
          /\ probe.c = m => probe.result.remainingSlots = 0

\* C7 happens: the function was called on a count equal to a configured limit
C7_Witness ==
    /\ probe # NoProbe
    /\ maxUsersEnv.kind = "num"
    /\ probe.c = maxUsersEnv.val
    /\ probe.c = probe.result.maxUsers
    /\ ~probe.result.canAdd

\* C8: an invitation row is pending or accepted (or expired); it comes into
\* being pending and its status only ever moves from pending to accepted (or
\* expired).  It becomes accepted only by the accept request that named it and
\* that has itself inserted a membership row for the invitation's household
\* and its own user.  An accept that the capacity check denies changes no
\* invitation and no membership.
C8_InvitationStateMachine ==
    [][/\ \A i \in InvIds :
            /\ invitations'[i].status \in {"none", "pending", "accepted", "expired"}
            /\ invitations'[i].status # invitations[i].status =>
                   \/ invitations[i].status = "none" /\ invitations'[i].status = "pending"
                   \/ /\ invitations[i].status = "pending"
                      /\ invitations'[i].status \in {"accepted", "expired"}
            /\ (invitations[i].status # "accepted" /\ invitations'[i].status = "accepted") =>
                   \E r \in Reqs :
                       /\ req[r].kind = "accept"
                       /\ req[r].pc = "acc_update"
                       /\ req[r].target = i
                       /\ EmailOf(req[r].user) = invitations[i].email
                       /\ MemberRows(invitations[i].household_id, req[r].user) # {}
       /\ \A r \in Reqs :
            /\ (req[r].pc # "acc_update" /\ req'[r].pc = "acc_update") =>
                   /\ req[r].pc = "acc_insert"
                   /\ MemberRows(req[r].inv.household_id, req[r].user) = {}
                   /\ members' = members \cup
                          {Member(req[r].inv.household_id, req[r].user,
                                  req[r].inv.role, TRUE)}
            /\ (/\ req[r].pc = "acc_cap"
                /\ req'[r].pc = "done"
                /\ req'[r].res.status = 403) =>
                   /\ invitations' = invitations
                   /\ members' = members]_vars

\* C8 happens: an invitation is accepted and its user has a membership row
C8_Witness ==
    \E i \in InvIds :
        /\ invitations[i].status = "accepted"
        /\ MemberRows(invitations[i].household_id, invitations[i].email[1]) # {}

C10_CheckedSameHousehold ==
    \A r \in Reqs :
        /\ req[r].pc = "reg_member" => req[r].capHid = req[r].hid
        /\ req[r].pc = "inv_react" => req[r].capHid = req[r].hid
        /\ req[r].pc = "acc_insert" => req[r].capHid = req[r].inv.household_id

\* ------------------------------------------------------- gateway properties
\* the events of name `name` among the emissions of the last step
Emitted(name) == {i \in 1..Len(emitted) : emitted[i].name = name}

\* the credential of a connection attempt does not admit it: it is missing or
\* invalid, or names no active account, or names a locked one
NotAdmitted(token) ==
    \/ token.kind # "good"
    \/ userRole[token.id] = "none"
    \/ ~accounts[token.id].is_active
    \/ /\ accounts[token.id].locked_until # NoLock
       /\ now < accounts[token.id].locked_until

\* C11: a connection whose credential is missing or invalid, or whose account
\* is inactive or currently locked, is refused before the connection handler
\* runs: the step that takes it up leaves it refused, in no room, with no
\* user:online emitted and no bus subscription added, and the refused
\* connection only goes away; a socket the server does not hold is in no room
\* and has no bus listener.
C11_RefusedConnectionLeavesNothing ==
    [][/\ \A s \in Socks :
            /\ (sockets[s].state = "closed" /\ sockets'[s].state # "closed"
                    /\ NotAdmitted(sockets'[s].token))
               => /\ sockets'[s].state = "refused"
                  /\ sockets'[s].rooms = {}
                  /\ listeners' = listeners
                  /\ onlineUsers' = onlineUsers
                  /\ emitted' = <<>>
            /\ sockets[s].state = "refused"
               => /\ sockets'[s].state \in {"refused", "closed"}
                  /\ listeners' = listeners
                  /\ onlineUsers' = onlineUsers
                  /\ emitted' = <<>>
            /\ sockets'[s].state \in {"closed", "auth", "refused"}
               => /\ sockets'[s].rooms = {}
                  /\ \A l \in listeners' : l[3] # s
                  /\ \A i \in 1..Len(emitted') : s \notin emitted'[i].to]_vars

\* a connection of the locked account has been refused, and so has one of the
\* deactivated account in another run
C11_Witness ==
    \E s \in Socks :
        /\ sockets[s].state = "refused"
        /\ sockets[s].token.kind = "good"
        /\ sockets[s].error \in {"Account is temporarily locked",
                                 "Invalid authentication token"}
        /\ NotAdmitted(sockets[s].token)
        /\ \E q \in Socks : sockets[q].state = "open"

ActiveMember(u, h) ==
    \E m \in members : m.household_id = h /\ m.user_id = u /\ m.is_active

\* C13: every session that is in a room scoped to a household holds an
\* active membership in the room's household.  The household of the chat room
\* chat:<roomType>:<roomId> is roomId, the household sendChatNotifications
\* looks the room's members up in.
C13_RoomMembersHoldMembership ==
    \A s \in Socks, c \in RoomIds :
        (Connected(s) /\ ChatRoom(c) \in sockets[s].rooms)
        => ActiveMember(sockets[s].user, c)

\* C14: when a collab:join is denied for lack of household membership, the
\* step emits one error event, to the calling session only, and no
\* collab:user-joined; no session's rooms change and the caller stays open
\* for further requests.
C14_DeniedJoinChangesNothing ==
    [][(\E i \in 1..Len(emitted') :
            emitted'[i].message = "Access denied to this household")
       => /\ Len(emitted') = 1
          /\ emitted'[1].name = "error"
          /\ \E s \in Socks : /\ emitted'[1].to = {s}
                              /\ sockets[s].state = "open"
                              /\ sockets'[s].state = "open"
                              /\ \A q \in Socks : sockets'[q].state # "refused"
          /\ \A q \in Socks : sockets'[q].rooms = sockets[q].rooms
          /\ sockets' = sockets]_vars

\* a session that is in a collaboration room has been denied another join
\* while a second session is in a collaboration room
C14_Witness ==
    /\ Len(emitted) = 1
    /\ emitted[1].message = "Access denied to this household"
    /\ \E s \in emitted[1].to :
          /\ \E d \in RoomIds : CollabRoom(d) \in sockets[s].rooms
          /\ \E q \in Socks \ {s} :
                Connected(q) /\ \E d \in RoomIds : CollabRoom(d) \in sockets[q].rooms

\* the sessions of user u the server holds and has not been told to be gone
LiveSessions(u) == {s \in Socks : sockets[s].state = "open" /\ sockets[s].user = u}

\* C15: presence events are per connection: the step that connects a session
\* emits exactly one user:online, for its user, and the step that disconnects
\* one emits exactly one user:offline, for its user, whatever other sessions
\* the user has.
C15_PresenceEventsPerConnection ==
    [][\A s \in Socks :
          /\ (sockets[s].state = "auth" /\ sockets'[s].state = "open")
             => /\ Len(emitted') = 1
                /\ emitted'[1].name = "user:online"
                /\ emitted'[1].user = sockets'[s].user
                /\ emitted'[1].to = {q \in Socks : Connected(q)} \ {s}
          /\ (sockets[s].state \in {"closing", "silent"}
                  /\ sockets'[s].state = "closed")
             => /\ Len(emitted') = 1
                /\ emitted'[1].name = "user:offline"
                /\ emitted'[1].user = sockets[s].user
                /\ emitted'[1].to = {q \in Socks : Connected(q)} \ {s}]_vars

\* the first of a user's two sessions has been disconnected: user:offline
\* has gone to the other one, which is still live
C15_Witness ==
    /\ Len(emitted) = 1
    /\ emitted[1].name = "user:offline"
    /\ \E q \in emitted[1].to : q \in LiveSessions(emitted[1].user)

\* C16: whenever no connect or disconnect is in progress, the presence of a
\* user obtained by applying every user:online and user:offline event in the
\* order emitted, as the clients' onlineUsers set does, is online if and only
\* if the user has at least one live session on any instance.
C16_PresenceMatchesLiveSessions ==
    (\A s \in Socks : sockets[s].state \in {"closed", "open"})
    => \A u \in Users : (u \in onlineUsers) <=> (LiveSessions(u) # {})

\* C17: every session that is closed by its client or stops answering pings
\* is eventually disconnected; the step that disconnects it emits user:offline
\* for its user and leaves it in no room and without a bus listener, and a
\* disconnected session is in no room, has no bus listener and is sent no
\* event.
C17_ClosedSessionIsCleanedUp ==
    /\ \A s \in Socks :
          (sockets[s].state \in {"closing", "silent"}) ~> (sockets[s].state = "closed")
    /\ [][\A s \in Socks :
             (sockets[s].state \in {"closing", "silent"}
                 /\ sockets'[s].state \notin {"closing", "silent"})
             => /\ sockets'[s].state = "closed"
                /\ sockets'[s].rooms = {}
                /\ \E i \in 1..Len(emitted') :
                      /\ emitted'[i].name = "user:offline"
                      /\ emitted'[i].user = sockets[s].user
                /\ \A l \in listeners' : l[3] # s]_vars
    /\ [](\A s \in Socks :
             sockets[s].state = "closed"
             => /\ sockets[s].rooms = {}
                /\ \A l \in listeners : l[3] # s
                /\ \A i \in 1..Len(emitted) : s \notin emitted[i].to)

\* a session has just been disconnected: user:offline for its user has gone
\* to the session that stays connected, which is another session of that
\* user and has lost its bus listener with it
C17_Witness ==
    /\ Len(emitted) = 1
    /\ emitted[1].name = "user:offline"
    /\ \E s \in Socks : sockets[s].state = "closed"
    /\ \E q \in emitted[1].to :
          /\ sockets[q].state = "open"
          /\ \A l \in listeners : l[3] # q

\* C18: chat broadcast follows persistence: every chat:message event carries
\* the id of a row of chat_messages, and a send whose insert fails adds no
\* row and emits no chat:message but one error, to the sender (while the
\* server still holds the sender's socket).
C18_BroadcastFollowsPersistence ==
    /\ [](\A i \in Emitted("chat:message") :
             \A k \in 1..Len(emitted[i].list) :
                \E row \in chat_messages : row.id = emitted[i].list[k])
    /\ [][\A s \in Socks :
             (sockets[s].sending # NoSend /\ sockets'[s].sending = NoSend
                 /\ \A row \in chat_messages' : row.id # sockets[s].sending.id)
             => /\ chat_messages' = chat_messages
                /\ Len(emitted') = 1
                /\ emitted'[1].name = "error"
                /\ emitted'[1].message = "Failed to send message"
                /\ emitted'[1].to = {s} \cap {q \in Socks : Connected(q)}]_vars

\* after a message was stored, the insert of the next send has failed: the
\* sender has been sent the error while the other session is in a chat room
C18_Witness ==
    /\ chat_messages # {}
    /\ Len(emitted) = 1
    /\ emitted[1].message = "Failed to send message"
    /\ \E s \in emitted[1].to :
          \E q \in Socks \ {s} :
             Connected(q) /\ \E c \in RoomIds : ChatRoom(c) \in sockets[q].rooms

\* C19: a message successfully sent by a session to room R is delivered back
\* to the sending session exactly once, and exactly once to every other
\* session that is in R when it is broadcast.
C19_SelfEchoExactlyOnce ==
    [][\A s \in Socks :
          (sockets[s].state = "open" /\ sockets[s].sending # NoSend
              /\ \E row \in chat_messages' \ chat_messages :
                    row.id = sockets[s].sending.id)
          => LET sent == {i \in 1..Len(emitted') :
                             /\ emitted'[i].name = "chat:message"
                             /\ emitted'[i].list = <<sockets[s].sending.id>>}
             IN \A q \in {s} \cup InRoom(sockets[s].sending.room) :
                   Cardinality({i \in sent : q \in emitted'[i].to}) = 1]_vars

\* a text is missing, empty or made of blanks only
Blank(text) == text = NoText \/ \A i \in 1..Len(text) : text[i] = " "

\* the texts a send is refused for
BlankTexts == {t \in Texts \cup {NoText} : Blank(t)}

\* C20: a chat send whose text is missing, empty or whitespace-only emits one
\* error event, to the sender, and nothing else: no chat_messages row, no
\* chat:message, no notification run; the store and every session stay as
\* they are.  No insert is ever awaited and no row ever stored for a blank
\* text.
C20_BlankTextRejected ==
    /\ [][\A s \in Socks, c \in RoomIds, text \in BlankTexts :
             ChatSend(s, c, text)
             => /\ emitted' = <<Emission("error", {s}, NoId, <<>>,
                                         "Message cannot be empty")>>
                /\ UNCHANGED <<chat_messages, chat_sent, notifying, sockets,
                               listeners, userRole, households, members,
                               invitations, accounts>>]_vars
    /\ [](/\ \A s \in Socks :
                sockets[s].sending # NoSend => ~Blank(sockets[s].sending.message)
          /\ \A row \in chat_messages : ~Blank(row.message))

\* a whitespace-only text has been refused after a message of the same
\* session had been stored while the other session is in a chat room
C20_Witness ==
    /\ Len(emitted) = 1
    /\ emitted[1].message = "Message cannot be empty"
    /\ chat_messages # {}
    /\ notifying # {}
    /\ \E s \in emitted[1].to :
          /\ sockets[s].state = "open"
          /\ \E q \in Socks \ {s} :
                Connected(q) /\ \E c \in RoomIds : ChatRoom(c) \in sockets[q].rooms

\* q lists the last n rows of chat_messages for room, oldest first: ids of
\* the room's rows only, in ascending creation order, as many as there are up
\* to n, and no row left out is newer than a row listed
IsLastOf(q, room, n) ==
    LET ids == {m.id : m \in {x \in chat_messages : x.room = room}}
        listed == {q[i] : i \in 1..Len(q)}
    IN /\ listed \subseteq ids
       /\ Len(q) = IF Cardinality(ids) < n THEN Cardinality(ids) ELSE n
       /\ \A i, j \in 1..Len(q) : i < j => q[i] < q[j]
       /\ \A k \in ids \ listed : \A i \in 1..Len(q) : k < q[i]

\* C21: the chat:history sent in response to chat:join for room R lists the
\* last N (default 50) messages stored for R when the query runs, those of R
\* only, oldest first; so does sendRecentMessages for every limit N.
C21_HistoryIsLastMessages ==
    [][/\ \A s \in Socks :
             (sockets[s].fetching # NoRoom /\ sockets'[s].fetching = NoRoom
                 /\ emitted' # <<>>)
             => /\ Len(emitted') = 1
                /\ emitted'[1].name = "chat:history"
                /\ emitted'[1].to = {s}
                /\ IsLastOf(emitted'[1].list, sockets[s].fetching, HistoryLimit)
       /\ \A s \in Socks, c \in RoomIds, limit \in Limits :
             HistoryCall(s, c, limit)
             => IsLastOf(emitted'[1].list, ChatRoom(c), limit)]_vars

\* a history of two messages has been sent for a room that holds three,
\* while the other room holds a message too
C21_Witness ==
    /\ Len(emitted) = 1
    /\ emitted[1].name = "chat:history"
    /\ Len(emitted[1].list) = 2
    /\ \E r \in chat_messages :
          /\ r.id = emitted[1].list[1]
          /\ Cardinality({x \in chat_messages : x.room = r.room}) = 3
          /\ \E y \in chat_messages : y.room # r.room

\* C22: a push notification for a chat message goes only to active members
\* of the room's household who are not the sender, who have no connected
\* session when the notification run sends it, and whose stored preference
\* enables push notifications.
C22_PushOnlyToAbsentMembers ==
    \A i \in Emitted("push") :
        LET u == emitted[i].user
            row == CHOOSE m \in chat_messages : m.id = emitted[i].list[1]
        IN /\ ActiveMember(u, row.room[2])
           /\ u # row.user_id
           /\ accounts[u].push_notifications_enabled
           /\ \A s \in Socks : ~(Connected(s) /\ sockets[s].user = u)

\* C23: a chat:typing request of a session sends chat:user-typing to every
\* other session in the chat room and not to the sending session, and every
\* step that emits chat:user-typing is the handling of a chat:typing request,
\* which emits just that: the server clears no typing state by itself.
C23_TypingGoesToOthersOnly ==
    [][/\ \A s \in Socks, c \in RoomIds, b \in BOOLEAN :
             ChatTyping(s, c, b)
             => /\ Len(emitted') = 1
                /\ emitted'[1].name = "chat:user-typing"
                /\ emitted'[1].user = sockets[s].user
                /\ s \notin emitted'[1].to
                /\ \A q \in Socks \ {s} :
                      q \in emitted'[1].to
                      <=> (Connected(q) /\ ChatRoom(c) \in sockets[q].rooms)
       /\ (\E i \in 1..Len(emitted') : emitted'[i].name = "chat:user-typing")
          => \E s \in Socks, c \in RoomIds, b \in BOOLEAN : ChatTyping(s, c, b)]_vars

\* a session in a chat room has signalled typing: the event has gone to the
\* other session in the room, which is on another instance
C23_Witness ==
    /\ Len(emitted) = 1
    /\ emitted[1].name = "chat:user-typing"
    /\ \E s \in Socks, q \in emitted[1].to, c \in RoomIds :
          /\ s \notin emitted[1].to
          /\ sockets[s].state = "open"
          /\ sockets[s].user = emitted[1].user
          /\ sockets[s].instance # sockets[q].instance
          /\ ChatRoom(c) \in sockets[s].rooms \cap sockets[q].rooms

\* the timer of highlight id, where it is pending
Pending(id) == {t \in timers : t.id = id}

\* the removal events of highlight id among what the last step sent
Removals(id) ==
    {i \in Emitted("collab:highlight-remove") : emitted[i].list[2] = id}

\* C24: a highlight accepted at time T holds a timer due at T + 30 s; while the
\* instance that accepted it stays up, the timer runs at T + 30 s exactly and
\* sends one collab:highlight-remove for the same item to every session in the
\* room at that time other than the session that created the highlight,
\* whether or not that session is still connected; a timer ends in no other
\* way than by running or by the stop of its instance.
C24_RemovalAfterThirtySeconds ==
    /\ \A id \in 1..MaxHighlights : (Pending(id) # {}) ~> (Pending(id) = {})
    /\ [](\A t \in timers : clock <= t.due)
    /\ [][\A id \in 1..MaxHighlights :
             /\ (Pending(id) = {} /\ Pending(id)' # {})
                => \A t \in Pending(id)' :
                      /\ t.due = clock + HighlightDelay
                      /\ \E i \in Emitted("collab:highlight")' :
                            /\ emitted'[i].list = <<t.item>>
                            /\ emitted'[i].to = InRoom(t.room) \ {t.socket}
             /\ (Pending(id) # {} /\ Pending(id)' = {})
                => \A t \in Pending(id) :
                      \/ /\ clock = t.due
                         /\ clock' = clock
                         /\ emitted' =
                              <<Emission("collab:highlight-remove",
                                         InRoom(t.room)' \ {t.socket},
                                         t.user, <<t.item, id>>, "")>>
                      \/ /\ emitted' = <<>>
                         /\ \A s \in Socks : sockets'[s].instance # t.instance
             /\ (Pending(id) = {}) => (Removals(id)' = {})]_vars

\* the removal of a highlight is sent to a session of the room after the
\* session that created the highlight has gone
C24_Witness ==
    \E i \in Emitted("collab:highlight-remove") :
        /\ emitted[i].to # {}
        /\ \A s \in Socks : sockets[s].user = emitted[i].user => ~Connected(s)

\* C24 as stated: the removal goes to all the sessions in the room at that
\* time, the one that created the highlight included
C24_RemovalReachesAllSessions ==
    [][\A id \in 1..MaxHighlights :
          \A t \in Pending(id) :
             \A i \in Removals(id)' : emitted'[i].to = InRoom(t.room)']_vars

\* highlight id was accepted and its timer ended before any timer could run
Lost(id) == id <= highlighted /\ Pending(id) = {} /\ clock < HighlightDelay

\* C25: when the process of the instance that accepted a highlight stops
\* before the highlight's timer has run, the timer ends with it and sends
\* nothing, and from then on no collab:highlight-remove of that highlight is
\* sent to any session: a removal is only ever sent by a pending timer, and a
\* timer that has ended never comes back.
C25_LostTimerNeverRemoves ==
    /\ \A id \in 1..MaxHighlights : [](Lost(id) => [](Removals(id) = {}))
    /\ [][\A id \in 1..MaxHighlights :
             /\ Removals(id)' # {} => (Pending(id) # {} /\ Pending(id)' = {})
             /\ (id <= highlighted /\ Pending(id) = {}) => Pending(id)' = {}
             /\ \A t \in Pending(id) :
                   Restart(t.instance) => (Pending(id)' = {} /\ emitted' = <<>>)]_vars

\* the instance of a highlight stopped within the 30 s, and a session of
\* another instance is still in the room of the highlight
C25_Witness ==
    /\ \E id \in 1..MaxHighlights : Lost(id)
    /\ timers = {}
    /\ InRoom(CollabRoom(1)) # {}

\* C26: a message published on a channel is handed once to each listener
\* that is subscribed to the channel when it is published, so that a session
\* is sent at most one 'notification' for it, and only if its listener is
\* subscribed at that time; no step other than the publication delivers it:
\* a session without a subscription at that time is never sent it later.
C26_BusDeliveryAtMostOnce ==
    [][gateway' # gateway
          => /\ \A i \in Emitted("notification")' :
                   \A q \in emitted'[i].to :
                      /\ <<sockets[q].instance, emitted'[i].user, q>> \in listeners
                      /\ \A j \in Emitted("notification")' :
                            j # i => q \notin emitted'[j].to
             /\ Emitted("notification")' # {}
                   => \E u \in Users :
                         /\ Publish(u)
                         /\ \A i \in 1..Len(emitted') :
                               /\ emitted'[i].name = "notification"
                               /\ emitted'[i].user = u]_vars

\* a message is published and delivered to one session of the user while
\* another connected session of that user holds no subscription: that session
\* is sent nothing
C26_Witness ==
    \E i \in Emitted("notification") :
       /\ emitted[i].to # {}
       /\ \E q \in Socks :
             /\ Connected(q)
             /\ sockets[q].user = emitted[i].user
             /\ \A j \in 1..Len(emitted) : q \notin emitted[j].to

\* the sessions that the instance of s holds in room after the step
LocalMembers(s, room) ==
    {q \in InRoom(room)' : sockets'[q].instance = sockets'[s].instance}

\* C27: the collaborators list that collab:join sends to the joining session
\* names, once for each of them, the users of the sessions that the instance
\* of the joining session holds in the room after the join, the joining
\* session among them, and names no session of another instance.
C27_CollaboratorsAreLocalSessions ==
    [][\A s \in Socks, d \in RoomIds :
          CollabJoin(s, TRUE, d, NoId)
          => \E i \in Emitted("collab:collaborators")' :
                /\ emitted'[i].to = {s}
                /\ s \in LocalMembers(s, CollabRoom(d))
                /\ Len(emitted'[i].list) = Cardinality(LocalMembers(s, CollabRoom(d)))
                /\ \A u \in Users :
                      Cardinality({k \in 1..Len(emitted'[i].list) :
                                     emitted'[i].list[k] = u})
                      = Cardinality({q \in LocalMembers(s, CollabRoom(d)) :
                                       sockets'[q].user = u})]_vars

\* a session joins a room that holds a session of the other instance: the
\* list it is sent names itself alone
C27_Witness ==
    \E i \in Emitted("collab:collaborators") :
       \E s \in emitted[i].to, q \in Socks, d \in RoomIds :
          /\ Len(emitted[i].list) = 1
          /\ Connected(q)
          /\ sockets[q].instance # sockets[s].instance
          /\ CollabRoom(d) \in sockets[q].rooms
          /\ \A e \in RoomIds : CollabRoom(e) \in sockets[s].rooms <=> e = d

\* C30: a collab:edit whose operation is not create, update or delete sends
\* the sender the error 'Invalid operation', broadcasts no collab:edit and
\* leads to no activity_logs row; a collab:edit with one of the three is
\* broadcast to the sessions in the room other than the sender, never to the
\* sender.
C30_InvalidEditRejected ==
    /\ [][\A s \in Socks, operation \in Operations :
             CollabEdit(s, 1, operation)
             => IF operation \in {"create", "update", "delete"}
                THEN /\ Len(emitted') = 1
                     /\ emitted'[1].name = "collab:edit"
                     /\ emitted'[1].message = operation
                     /\ emitted'[1].to = InRoom(CollabRoom(1)) \ {s}
                     /\ s \notin emitted'[1].to
                ELSE /\ Len(emitted') = 1
                     /\ emitted'[1].name = "error"
                     /\ emitted'[1].message = "Invalid operation"
                     /\ emitted'[1].to = {s}
                     /\ edits' = edits
                     /\ activity_logs' = activity_logs]_vars
    /\ [](/\ \A i \in Emitted("collab:edit") :
                emitted[i].message \in {"create", "update", "delete"}
          /\ \A e \in edits : e.operation \in {"create", "update", "delete"}
          /\ \A row \in activity_logs :
                row.operation \in {"create", "update", "delete"})
    /\ [][\A row \in activity_logs' \ activity_logs :
             \E e \in edits : e.id = row.id /\ e.operation = row.operation]_vars

\* after an edit of the room was logged, a session that shares the room with
\* another one sends an edit with an operation outside the three and is sent
\* the error
C30_Witness ==
    /\ activity_logs # {}
    /\ edits = {}
    /\ \E i \in Emitted("error") :
          /\ emitted[i].message = "Invalid operation"
          /\ \E s \in emitted[i].to :
                /\ s \in InRoom(CollabRoom(1))
                /\ InRoom(CollabRoom(1)) \ {s} # {}

\* C28: for every list of membership rows, getHouseholdUserStats returns
\* activeUsers and inactiveUsers as the numbers of active and of other rows,
\* totalUsers = activeUsers + inactiveUsers, remainingSlots = maxUsers -
\* activeUsers, nearLimit = (activeUsers >= maxUsers - 1), atLimit =
\* (activeUsers >= maxUsers) and overLimit = (activeUsers > maxUsers), so that
\* overLimit implies atLimit implies nearLimit.
C28_StatsOfRows ==
    "stats" \in DOMAIN probe
    => LET rows == probe.rows
           r == probe.stats
           m == IF maxUsersEnv.kind = "num" /\ maxUsersEnv.val # 0
                THEN maxUsersEnv.val ELSE 5
       IN /\ r.activeUsers = Cardinality({k \in 1..Len(rows) : rows[k].is_active})
          /\ r.inactiveUsers = Cardinality({k \in 1..Len(rows) : ~rows[k].is_active})
          /\ r.totalUsers = Len(rows)
          /\ r.totalUsers = r.activeUsers + r.inactiveUsers
          /\ r.maxUsers = m
          /\ r.remainingSlots = r.maxUsers - r.activeUsers
          /\ r.warnings.nearLimit = (r.activeUsers >= r.maxUsers - 1)
          /\ r.warnings.atLimit = (r.activeUsers >= r.maxUsers)
          /\ r.warnings.overLimit = (r.activeUsers > r.maxUsers)
          /\ r.warnings.overLimit => r.warnings.atLimit
          /\ r.warnings.atLimit => r.warnings.nearLimit

\* a household with inactive rows and more active rows than maxUsers
C28_Witness ==
    /\ "stats" \in DOMAIN probe
    /\ probe.stats.inactiveUsers > 0
    /\ probe.stats.warnings.overLimit
    /\ probe.stats.remainingSlots < 0

\* C29: with the requests handled one at a time, from a store in which no
\* household holds more than maxUsers active members, no household ever
\* holds more than maxUsers active members.
C29_SequentialCountWithinCap ==
    \A h \in Households :
       Cardinality({m \in members : m.household_id = h /\ m.is_active}) <= MaxUsers

\* C31: however the accept requests of an invitation follow or overlap one
\* another, its household holds at most one household_members row of the
\* user: an accept goes on from its insert only if the household held no row
\* of the user and the insert added exactly one, and no row ever goes away, so
\* that a second accept of the invitation, or a retry after the status update
\* failed, adds none.
C31_OneMembershipPerInvitation ==
    /\ [](\A h \in Households, u \in Users : Cardinality(MemberRows(h, u)) <= 1)
    /\ [][/\ \A h \in Households, u \in Users :
                MemberRows(h, u) # {} => Cardinality(MemberRows(h, u)') = 1
          /\ \A r \in Reqs :
                (req[r].kind = "accept" /\ req'[r] # req[r] /\ members' # members)
                => /\ req[r].pc = "acc_insert"
                   /\ req'[r].pc = "acc_update"
                   /\ MemberRows(req[r].inv.household_id, req[r].user) = {}
                   /\ Cardinality(members') = Cardinality(members) + 1
                   /\ \A q \in Reqs \ {r} : req'[q] = req[q]]_vars

\* two accepts of the same invitation by the invited user overlap: both found
\* the invitation pending and the household below the limit, one inserted
\* the row and the insert of the other failed
C31_Witness ==
    \E r, q \in Reqs :
        /\ r # q
        /\ req[r].pc = "acc_update"
        /\ req[q].kind = "accept" /\ req[q].pc = "done"
        /\ req[q].target = req[r].target
        /\ req[q].res.status = 500
        /\ req[q].cap.canAdd
        /\ Cardinality(MemberRows(req[r].inv.household_id, req[r].user)) = 1

\* the active admin members of household h
ActiveAdmins(h) ==
    {m \in members : m.household_id = h /\ m.is_active /\ m.role = "admin"}

\* C32: a household that has an active admin member has one after every step
\* of the remove requests, however they overlap.
C32_HouseholdKeepsAnAdmin ==
    [][\A h \in Households : ActiveAdmins(h) # {} => ActiveAdmins(h)' # {}]_vars

\* C33: once the membership of a user in household h is deactivated in the
\* store, no open session of that user passes the access check of collab:join
\* for h, which reads socket.user.households, and none is in the room
\* household:h.
C33_SessionsFollowMembership ==
    \A s \in Socks, h \in Households :
        (sockets[s].state = "open"
            /\ (h \in sockets[s].households \/ HouseholdRoom(h) \in sockets[s].rooms))
        => \E m \in MemberRows(h, sockets[s].user) : m.is_active

\* C34: a message published on the channel user:u is handed to the listeners
\* subscribed to it, so every open session, whose subscription has completed,
\* holds its listener on the channel of its user whatever the other sessions
\* of that user do.
C34_OpenSessionStaysSubscribed ==
    \A s \in Socks :
        sockets[s].state = "open"
        => <<sockets[s].instance, sockets[s].user, s>> \in listeners

\* C35: the step in which a session stops being a member of a collaboration
\* room, by collab:leave or by its disconnect, sends collab:user-left for its
\* user to the sessions that remain in the room.
C35_LeftFollowsJoined ==
    [][\A s \in Socks, d \in RoomIds :
          (s \in InRoom(CollabRoom(d)) /\ s \notin InRoom(CollabRoom(d))')
          => \E i \in Emitted("collab:user-left")' :
                /\ emitted'[i].user = sockets[s].user
                /\ emitted'[i].to = InRoom(CollabRoom(d))']_vars

\* C36: a session is in the chat room from the moment its chat:join is
\* processed until it disconnects, and every message stored for the room is
\* sent as chat:message to every open session in the room in the step that
\* stores it; the chat:history of a join holds every message stored for the
\* room when its query runs.  A message stored after the join is therefore
\* never missed, wherever the history query falls among the sends.
C36_NoMessageMissedAcrossJoin ==
    /\ [][\A row \in chat_messages' \ chat_messages :
             \A s \in Socks :
                (sockets[s].state = "open" /\ row.room \in sockets[s].rooms)
                => \E i \in Emitted("chat:message")' :
                      s \in emitted'[i].to /\ emitted'[i].list = <<row.id>>]_vars
    /\ [][\A s \in Socks, c \in RoomIds :
             (ChatRoom(c) \in sockets[s].rooms /\ Connected(s) /\ Connected(s)')
             => ChatRoom(c) \in sockets'[s].rooms]_vars
    /\ [][\A s \in Socks :
             (sockets[s].fetching # NoRoom /\ sockets'[s].fetching = NoRoom)
             => \A i \in Emitted("chat:history")' :
                   /\ emitted'[i].to = {s}
                   /\ \A row \in chat_messages :
                         row.room = sockets[s].fetching
                         => \E k \in 1..Len(emitted'[i].list) :
                               emitted'[i].list[k] = row.id]_vars

\* a message is stored while the history query of a session that has just
\* joined the room is still running: the session is sent it as chat:message
C36_Witness ==
    \E i \in Emitted("chat:message") :
       \E s \in emitted[i].to, row \in chat_messages :
          /\ row.id = emitted[i].list[1]
          /\ sockets[s].state = "open"
          /\ sockets[s].fetching = row.room
          /\ sockets[s].user # row.user_id

\* C37: a chat:history sent to a session right after a chat:message was
\* delivered to it does not hold the id of that message.
C37_NoMessageTwiceAcrossJoin ==
    [][\A s \in Socks :
          \A i \in Emitted("chat:message"), j \in Emitted("chat:history")' :
             (s \in emitted[i].to /\ s \in emitted'[j].to
                 /\ sockets[s].fetching # NoRoom)
             => \A k \in 1..Len(emitted'[j].list) :
                   emitted'[j].list[k] # emitted[i].list[1]]_vars

\* C38: no collab:highlight-remove of an item is sent to a session while a
\* highlight of that item is less than 30 s old, that is while the timer of
\* a later highlight of the item has been set and is not yet due.
C38_HighlightLastsThirtySeconds ==
    \A i \in Emitted("collab:highlight-remove") :
       \A t \in timers :
          (t.item = emitted[i].list[1] /\ emitted[i].to # {})
          => ~(t.due - HighlightDelay < clock /\ clock < t.due)

\* C39: a collab:edit is broadcast to the sessions of a collaboration room
\* only if the session that sent it is in that room.
C39_OnlyMembersWrite ==
    [][\A s \in Socks, operation \in Operations :
          (CollabEdit(s, 1, operation)
              /\ \E i \in Emitted("collab:edit")' : emitted'[i].to # {})
          => CollabRoom(1) \in sockets[s].rooms]_vars

\* C40: an edit whose sender is sent the error 'Edit operation failed' right
\* after its broadcast was not sent as collab:edit to any other session.
C40_EditAllOrNothing ==
    [][\A i \in Emitted("collab:edit"), j \in Emitted("error")' :
          (/\ emitted'[j].message = "Edit operation failed"
           /\ \E e \in edits \ edits' :
                 /\ e.socket \in emitted'[j].to
                 /\ e.user = emitted[i].user
                 /\ e.operation = emitted[i].message)
          => emitted[i].to = {}]_vars

====
